---- MODULE Spec2Model ----
(***************************************************************************)
(* tap-vendit: the sync engine of the Vendit connector.                    *)
(*                                                                         *)
(*   auth.py     FileHandler / TokenStorage / VenditAuthenticator          *)
(*   client.py   VenditStream.__init__ (one authenticator per stream)      *)
(*   streams.py  BaseStream._request (the gateway), the Find loops, the    *)
(*               GetMultiple / GetWithDetails loops, the unix-cursor       *)
(*               streams                                                   *)
(*                                                                         *)
(* The program is single-threaded.  One variable pc holds the position of  *)
(* the running code, stack the return labels of the calls in progress.     *)
(* Every network exchange is one step: the step sends the request and      *)
(* takes the answer the server chooses.                                    *)
(*                                                                         *)
(* Python values: an optional value (None or v) is <<>> or <<v>>; a dict   *)
(* is a function from its keys.                                            *)
(***************************************************************************)
EXTENDS Integers, Sequences, FiniteSets, TLC

VARIABLES
    mode,        \* which driver runs: "gateway", "valid", "start", "read", "auth",
                 \* "headers", "products", "orders", "suppliers", or
                 \* the name of the unix-cursor stream that runs
    pc,          \* position of the running code
    stack,       \* return labels of the calls in progress, innermost first
    now,         \* wall clock, seconds (datetime.utcnow().timestamp())
    config,      \* tap._config, the keys the engine reads and writes
    file,        \* the token file: [kind, data]
    tries,       \* update_access_token: attempts made by the running call
    exc,         \* the exception that left the running code, <<>> if none
    call,        \* _request: the arguments of the running call
    glog,        \* _request: the events of the running call, in order (history)
    sent,        \* _request: the data requests the running call sent (history)
    got,         \* _request: the statuses the running call received (history)
    hdrs,        \* the headers auth_headers returned last
    response,    \* _request: the last response received / the value returned
    bookmark,    \* the replication-key value the SDK saved for the stream, or None
    context,     \* the context object handed to get_records: None or a dict
    loc,         \* get_records: its local variables
    out,         \* get_records: the records yielded so far, in order
    reqs,        \* get_records: the requests it issued so far, in order (history)
    pages,       \* get_records: the result lists the Find calls returned (history)
    mods,        \* the server's data: the instants at which an item was modified
    hist,        \* what the passes of the unix-cursor stream did so far (history)
    probe,       \* result of the last pure-function evaluation
    attempt,     \* update_access_token: its last attempt, <<>> before the first
                 \* (history, kept in the runs of the authenticator alone)
    details      \* get_records: the responses to its detail requests (history)

vars == <<mode, pc, stack, now, config, file, tries, exc, call, glog, sent, got,
          hdrs, response, bookmark, context, loc, out, reqs, pages, mods, hist, probe, attempt, details>>

None == <<>>
Some(v) == <<v>>

----------------------------------------------------------------------------
(* Bounds of the model *)

\* the clock runs from 0 to MaxNow seconds
MaxNow == 1
\* the token endpoint answers expiries up to SafetyMargin + MaxSlack
MaxSlack == 1
\* the server holds at most MaxFullPages full pages of identifiers
MaxFullPages == 2
\* the length of the long short page
ShortLen == 37
\* the clock of a unix-cursor stream runs MaxClock seconds
MaxClock == 2
\* a unix-cursor stream makes at most MaxRuns passes over one context object
MaxRuns == 2
MaxOrders == 3

----------------------------------------------------------------------------
(* auth.py *)

\* auth.py:217   (expires_in - now) < 120
SafetyMargin == 120
\* auth.py:235   max_tries=5
max_tries == 5

\* streams.py:161   return 1640995200000 (Jan 1st, 2022), in whole seconds
StartingSeconds == 1640995200

\* the streams of the unix cursor: streams.py:708 and streams.py:638
UnixStreams == {"purchase_orders_optiply", "supplier_products"}

Tokens == {"tA", "tB"}
ExpireChoices == {0} \cup {SafetyMargin - 1 + k : k \in 0..(MaxSlack + 1)}

\* Python truthiness of an optional string / an optional integer
TruthyStr(o) == o # None /\ o[1] # ""
TruthyInt(o) == o # None /\ o[1] # 0

\* dict.get(key) and dict.get(key, default) on a dict of optional values
Get(d, k) == IF k \in DOMAIN d THEN d[k] ELSE None

\* d.update(e)
Update(d, e) == e @@ d

EmptyDict == [k \in {} |-> None]

\* a mutant: the margin test with <= in place of <
is_token_valid_le(cfg, t) ==
    IF ~TruthyStr(Get(cfg, "token")) \/ ~TruthyInt(Get(cfg, "token_expire"))
    THEN FALSE
    ELSE ~((Get(cfg, "token_expire")[1] - t) <= SafetyMargin)

\* VenditAuthenticator.is_token_valid, on the config and the clock it reads
is_token_valid(cfg, t) ==
    IF ~TruthyStr(Get(cfg, "token")) \/ ~TruthyInt(Get(cfg, "token_expire"))
    THEN FALSE
    ELSE ~((Get(cfg, "token_expire")[1] - t) < SafetyMargin)

\* FileHandler._read_file: {} on a missing or malformed file
read_file(f) == IF f.kind = "json" THEN f.data ELSE EmptyDict

\* TokenStorage.read_token
read_token(f) ==
    [k \in {"token", "token_expire"} |-> Get(read_file(f), k)]

\* a mutant: the write replaces what the file holds
write_file_replacing(f, data, writable) ==
    IF writable THEN [kind |-> "json", data |-> data]
    ELSE f

\* FileHandler._write_file: merge over what the file holds; a failing write
\* (writable = FALSE) is swallowed and leaves the file as it was
write_file(f, data, writable) ==
    IF writable THEN [kind |-> "json", data |-> Update(read_file(f), data)]
    ELSE f

\* a mutant: the config is updated only when the file holds a token
LoadToken_if_present(cfg, f) ==
    IF read_token(f)["token"] # None THEN Update(cfg, read_token(f)) ELSE cfg

\* VenditAuthenticator.__init__: the token data of the file goes into the config
LoadToken(cfg, f) == Update(cfg, read_token(f))

\* the headers auth_headers builds (after its validity check)
BuildHeaders(cfg) ==
    [k \in {"Token", "ApiKey", "Content-Type"} |->
        CASE k = "Token" -> Get(cfg, "token")
          [] k = "ApiKey" -> Get(cfg, "vendit_api_key")
          [] OTHER -> Some("application/json")]

\* What the token endpoint can answer to one POST:
\*   transport "conn":  the POST raises a RequestException
\*   transport "http":  a non-2xx status, raise_for_status() raises HTTPError
\*   transport "ok":    a 2xx status with a body: not JSON, JSON but no dict,
\*                      or a dict
TokenBodies ==
    {[json |-> FALSE, dict |-> FALSE, data |-> EmptyDict],
     [json |-> TRUE, dict |-> FALSE, data |-> EmptyDict],
     [json |-> TRUE, dict |-> TRUE, data |-> EmptyDict],
     [json |-> TRUE, dict |-> TRUE, data |-> ("expire" :> 300)]}
    \cup {[json |-> TRUE, dict |-> TRUE, data |-> ("token" :> tk)] : tk \in Tokens}
    \cup {[json |-> TRUE, dict |-> TRUE, data |-> ("token" :> tk) @@ ("expire" :> e)] :
            tk \in Tokens, e \in ExpireChoices}

TokenAnswers ==
    {[transport |-> "conn", body |-> [json |-> FALSE, dict |-> FALSE, data |-> EmptyDict]],
     [transport |-> "http", body |-> [json |-> FALSE, dict |-> FALSE, data |-> EmptyDict]]}
    \cup {[transport |-> "ok", body |-> b] : b \in TokenBodies}

\* a mutant: a JSON body that is no object counts as an empty response
AttemptError_merging(ans) ==
    CASE ans.transport # "ok" -> "TokenRefreshError"
      [] ~ans.body.json \/ ~ans.body.dict -> "EmptyResponseError"
      [] "token" \notin DOMAIN ans.body.data -> "TokenRefreshError"
      [] OTHER -> ""

\* One attempt of update_access_token on the answer ans: the exception it
\* raises, "" when it succeeds
AttemptError(ans) ==
    CASE ans.transport # "ok" -> "TokenRefreshError"
      [] ~ans.body.json -> "EmptyResponseError"
      [] ~ans.body.dict \/ "token" \notin DOMAIN ans.body.data -> "TokenRefreshError"
      [] OTHER -> ""

\* the message of that exception
AttemptMessage(ans) ==
    CASE ans.transport # "ok" -> "Token refresh failed: " \o ans.transport
      [] ~ans.body.json -> "Failed converting response to json, because response is empty"
      [] ~ans.body.dict \/ "token" \notin DOMAIN ans.body.data -> "Invalid token response format"
      [] OTHER -> ""

\* a mutant: an answer without expire is given an expiry far ahead
TokenInfo_far_default(ans) ==
    ("token" :> Some(ans.body.data["token"])) @@
    ("token_expire" :> Some(IF "expire" \in DOMAIN ans.body.data
                            THEN ans.body.data["expire"] ELSE SafetyMargin + MaxNow + 1))

\* the token_info of a successful attempt
TokenInfo(ans) ==
    ("token" :> Some(ans.body.data["token"])) @@
    ("token_expire" :> Some(IF "expire" \in DOMAIN ans.body.data
                            THEN ans.body.data["expire"] ELSE 0))

----------------------------------------------------------------------------
(* Calls and returns *)

\* call the routine at label, come back at ret
CallTo(label, ret) == pc' = label /\ stack' = <<ret>> \o stack
Return == pc' = Head(stack) /\ stack' = Tail(stack)
\* an exception: nothing in the engine catches it, the whole run unwinds
Raise(e) == pc' = "raised" /\ stack' = <<>> /\ exc' = Some(e)

\* the history of the running gateway call: "check:valid" / "check:invalid"
\* (the test of line 62), "headers:valid" / "headers:invalid" (the test inside
\* auth_headers), "refresh" (update_access_token is entered), "send" (a data
\* request goes out)
Log(ev) == glog' = Append(glog, ev)

----------------------------------------------------------------------------
(* VenditAuthenticator.update_access_token, under backoff.on_exception:    *)
(* one step per attempt.                                                    *)

\* the answers of the token endpoint in a run of kind m: the stream runs
\* meet an endpoint that either fails at transport level or issues a token
\* that stays valid
FarExpire(m) ==
    IF m \in UnixStreams THEN StartingSeconds + MaxClock + SafetyMargin
    ELSE SafetyMargin + MaxNow
TokenAnswersIn(m) ==
    IF m \in {"gateway", "auth", "headers"} THEN TokenAnswers
    ELSE {[transport |-> "conn", body |-> [json |-> FALSE, dict |-> FALSE, data |-> EmptyDict]],
          [transport |-> "ok",
           body |-> [json |-> TRUE, dict |-> TRUE,
                     data |-> ("token" :> "tA") @@ ("expire" :> FarExpire(m))]]}

\* whether the write of the token file succeeds: the file system's choice
Writable == IF mode \in {"auth", "headers"} THEN BOOLEAN ELSE {TRUE}

\* entry: the attempt counter of a new call
UpdateEnter ==
    /\ pc = "uat"
    /\ tries' = 0
    /\ pc' = "uat_try"
    /\ Log("refresh")
    /\ attempt' = None
    /\ UNCHANGED <<mode, stack, now, config, file, exc, call, sent, got, hdrs, response, bookmark, context, loc, out, reqs, pages, mods, hist, probe, details>>

\* the history of an attempt: the answer it met, its exception, whether the
\* token file was written
Attempted(ans, writable) ==
    IF mode \in {"gateway", "auth", "headers"}
    THEN Some([answer |-> ans, error |-> AttemptError(ans), message |-> AttemptMessage(ans),
               written |-> AttemptError(ans) = "" /\ writable])
    ELSE attempt

\* a mutant: after max_tries failures the call returns without an exception
UpdateAttempt_giving_up_quietly ==
    /\ pc = "uat_try"
    /\ \E ans \in TokenAnswersIn(mode), writable \in Writable :
        LET err == AttemptError(ans) IN
        /\ attempt' = Attempted(ans, writable)
        /\ IF err = ""
           THEN /\ config' = Update(config, TokenInfo(ans))
                /\ file' = write_file(file, TokenInfo(ans), writable)
                /\ tries' = 0
                /\ Return
                /\ UNCHANGED exc
           ELSE /\ tries' = tries + 1
                /\ UNCHANGED <<config, file>>
                /\ IF tries + 1 >= max_tries
                   THEN Return /\ UNCHANGED exc
                   ELSE UNCHANGED <<pc, stack, exc>>
    /\ UNCHANGED <<mode, now, call, glog, sent, got, hdrs, response, bookmark, context, loc, out, reqs, pages, mods, hist, probe, details>>

\* a mutant: an EmptyResponseError is not retried
UpdateAttempt_empty_not_retried ==
    /\ pc = "uat_try"
    /\ \E ans \in TokenAnswersIn(mode), writable \in Writable :
        LET err == AttemptError(ans) IN
        /\ attempt' = Attempted(ans, writable)
        /\ IF err = ""
           THEN /\ config' = Update(config, TokenInfo(ans))
                /\ file' = write_file(file, TokenInfo(ans), writable)
                /\ tries' = 0
                /\ Return
                /\ UNCHANGED exc
           ELSE /\ tries' = tries + 1
                /\ UNCHANGED <<config, file>>
                /\ IF tries + 1 >= max_tries \/ err = "EmptyResponseError"
                   THEN Raise(err)
                   ELSE UNCHANGED <<pc, stack, exc>>
    /\ UNCHANGED <<mode, now, call, glog, sent, got, hdrs, response, bookmark, context, loc, out, reqs, pages, mods, hist, probe, details>>

\* a mutant: an attempt that fails drops the token of the config
UpdateAttempt_clearing_on_failure ==
    /\ pc = "uat_try"
    /\ \E ans \in TokenAnswersIn(mode), writable \in Writable :
        LET err == AttemptError(ans) IN
        /\ attempt' = Attempted(ans, writable)
        /\ IF err = ""
           THEN /\ config' = Update(config, TokenInfo(ans))
                /\ file' = write_file(file, TokenInfo(ans), writable)
                /\ tries' = 0
                /\ Return
                /\ UNCHANGED exc
           ELSE /\ tries' = tries + 1
                /\ config' = Update(config, ("token" :> None) @@ ("token_expire" :> None))
                /\ UNCHANGED file
                /\ IF tries + 1 >= max_tries
                   THEN Raise(err)
                   ELSE UNCHANGED <<pc, stack, exc>>
    /\ UNCHANGED <<mode, now, call, glog, sent, got, hdrs, response, bookmark, context, loc, out, reqs, pages, mods, hist, probe, details>>

\* a mutant: a write of the token file that fails raises out of the call
UpdateAttempt_write_failure_raises ==
    /\ pc = "uat_try"
    /\ \E ans \in TokenAnswersIn(mode), writable \in Writable :
        LET err == AttemptError(ans) IN
        /\ attempt' = Attempted(ans, writable)
        /\ IF err = ""
           THEN /\ config' = Update(config, TokenInfo(ans))
                /\ file' = write_file(file, TokenInfo(ans), writable)
                /\ tries' = 0
                /\ IF writable THEN Return /\ UNCHANGED exc ELSE Raise("OSError")
           ELSE /\ tries' = tries + 1
                /\ UNCHANGED <<config, file>>
                /\ IF tries + 1 >= max_tries
                   THEN Raise(err)
                   ELSE UNCHANGED <<pc, stack, exc>>
    /\ UNCHANGED <<mode, now, call, glog, sent, got, hdrs, response, bookmark, context, loc, out, reqs, pages, mods, hist, probe, details>>

\* a mutant: the new token goes to the token file alone
UpdateAttempt_file_only ==
    /\ pc = "uat_try"
    /\ \E ans \in TokenAnswersIn(mode), writable \in Writable :
        LET err == AttemptError(ans) IN
        /\ attempt' = Attempted(ans, writable)
        /\ IF err = ""
           THEN /\ config' = config
                /\ file' = write_file(file, TokenInfo(ans), writable)
                /\ tries' = 0
                /\ Return
                /\ UNCHANGED exc
           ELSE /\ tries' = tries + 1
                /\ UNCHANGED <<config, file>>
                /\ IF tries + 1 >= max_tries
                   THEN Raise(err)
                   ELSE UNCHANGED <<pc, stack, exc>>
    /\ UNCHANGED <<mode, now, call, glog, sent, got, hdrs, response, bookmark, context, loc, out, reqs, pages, mods, hist, probe, details>>

\* line 232-279: one attempt; backoff retries it until max_tries were made
UpdateAttempt ==
    /\ pc = "uat_try"
    /\ \E ans \in TokenAnswersIn(mode), writable \in Writable :
        LET err == AttemptError(ans) IN
        /\ attempt' = Attempted(ans, writable)
        /\ IF err = ""
           THEN /\ config' = Update(config, TokenInfo(ans))
                /\ file' = write_file(file, TokenInfo(ans), writable)
                /\ tries' = 0
                /\ Return
                /\ UNCHANGED exc
           ELSE /\ tries' = tries + 1
                /\ UNCHANGED <<config, file>>
                /\ IF tries + 1 >= max_tries
                   THEN Raise(err)
                   ELSE UNCHANGED <<pc, stack, exc>>
    /\ UNCHANGED <<mode, now, call, glog, sent, got, hdrs, response, bookmark, context, loc, out, reqs, pages, mods, hist, probe, details>>

----------------------------------------------------------------------------
(* VenditAuthenticator.auth_headers (a property): the headers are left in   *)
(* hdrs for the caller.                                                     *)

\* a mutant: the headers are built without a refresh
AuthHeadersCheck_no_refresh ==
    /\ pc = "ah"
    /\ IF ~is_token_valid(config, now)
       THEN pc' = "ah_build" /\ UNCHANGED stack /\ Log("headers:invalid")
       ELSE pc' = "ah_build" /\ UNCHANGED stack /\ Log("headers:valid")
    /\ UNCHANGED <<mode, now, config, file, tries, exc, call, sent, got, hdrs, response, bookmark, context, loc, out, reqs, pages, mods, hist, probe, attempt, details>>

\* line 185-186: if not self.is_token_valid(): self.update_access_token()
AuthHeadersCheck ==
    /\ pc = "ah"
    /\ IF ~is_token_valid(config, now)
       THEN CallTo("uat", "ah_build") /\ Log("headers:invalid")
       ELSE pc' = "ah_build" /\ UNCHANGED stack /\ Log("headers:valid")
    /\ UNCHANGED <<mode, now, config, file, tries, exc, call, sent, got, hdrs, response, bookmark, context, loc, out, reqs, pages, mods, hist, probe, attempt, details>>

\* line 188-192: the headers, from the config as it is now
AuthHeadersBuild ==
    /\ pc = "ah_build"
    /\ hdrs' = BuildHeaders(config)
    /\ Return
    /\ UNCHANGED <<mode, now, config, file, tries, exc, call, glog, sent, got, response, bookmark, context, loc, out, reqs, pages, mods, hist, probe, attempt, details>>

----------------------------------------------------------------------------
(* streams.py: BaseStream._request, the gateway                            *)

NoResponse == [status |-> 0, body |-> [json |-> FALSE, dict |-> FALSE, data |-> EmptyDict]]
NoCall == [method |-> "", url |-> "", json |-> "", headers |-> EmptyDict]

\* the statuses a data endpoint answers
Statuses == {200, 401, 500}

\* a response body: not JSON, JSON that is no object, or a JSON object
NonJson == [json |-> FALSE, dict |-> FALSE, data |-> EmptyDict]
JsonList == [json |-> TRUE, dict |-> FALSE, data |-> EmptyDict]
JsonDict(d) == [json |-> TRUE, dict |-> TRUE, data |-> d]
ErrorDict == ("message" :> "error")

\* streams.py:424 page_size = 100 (and the default of line 87)
page_size == 100
\* streams.py:457 batch_size = 100 (BATCH_SIZE of line 121)
batch_size == 100

\* A JSON value of a result list: <<"int", n>>, <<"str", s>> or <<"null">>
FullPage == [i \in 1..page_size |-> <<"int", i>>]
FullPageWithFalsy ==
    [i \in 1..page_size |->
        CASE i = 1 -> <<"int", 0>>
          [] i = 2 -> <<"str", "">>
          [] i = 3 -> <<"null">>
          [] OTHER -> <<"int", i>>]
FullPages == {FullPage, FullPageWithFalsy}
\* a full page of falsy values only
FullPageAllFalsy == [i \in 1..page_size |-> IF i % 2 = 0 THEN <<"int", 0>> ELSE <<"null">>]
ShortPages ==
    {<<>>,
     <<<<"str", "1">>, <<"str", "2">>, <<"str", "3">>>>,
     [i \in 1..ShortLen |-> <<"int", 1000 + i>>],
     <<<<"int", 0>>, <<"int", 7>>, <<"null">>, <<"str", "">>>>,
     <<<<"int", 0>>, <<"str", "">>>>}

\* the result lists the server has for the page at offset: it holds at most
\* MaxFullPages full pages
PagesAt(offset) ==
    IF offset >= MaxFullPages * page_size THEN ShortPages
    ELSE IF offset = 0 THEN ShortPages \cup FullPages \cup {FullPageAllFalsy}
    ELSE ShortPages \cup FullPages

\* what the Find endpoint can answer to the request c
FindAnswers(c) ==
    {[status |-> 200, body |-> JsonDict("results" :> p)] : p \in PagesAt(c.json.paginationOffset)}
    \cup {[status |-> 200, body |-> JsonDict(EmptyDict)],
          [status |-> 200, body |-> NonJson],
          [status |-> 200, body |-> JsonList],
          [status |-> 500, body |-> JsonDict(ErrorDict)],
          [status |-> 500, body |-> NonJson],
          [status |-> 401, body |-> JsonDict(ErrorDict)]}

\* what the GetMultiple endpoint can answer to the request c
GetMultipleAnswers(c) ==
    {[status |-> 200,
      body |-> JsonDict("items" :> [k \in 1..Len(c.json.primaryKeys) |->
                                       [productId |-> c.json.primaryKeys[k]]])],
     [status |-> 200, body |-> JsonDict(EmptyDict)],
     [status |-> 200, body |-> NonJson],
     [status |-> 500, body |-> NonJson],
     [status |-> 401, body |-> JsonDict(ErrorDict)]}

\* the server holds at most MaxOrders orders: the result lists of the Find
\* endpoint of the orders, all of them short pages
OrderPages ==
    {[i \in 1..n |-> <<"int", 40 + i>>] : n \in 0..MaxOrders}
    \cup {<<<<"int", 0>>, <<"str", "7">>>>}
OrderIds == {ToString(40 + i) : i \in 1..MaxOrders} \cup {"7"}

\* streams.py:519-520 and 562: f"{self.path}/{order_id}"
OrdersPath == "/VenditPublicApi/Orders/GetWithDetails"
DetailUrl(order_id) == OrdersPath \o "/" \o order_id
IsOrdersFind(c) == c.url = "/VenditPublicApi/Orders/Find"
IsGetWithDetails(c) == \E id \in OrderIds : c.url = DetailUrl(id)
OrderIdOf(c) == CHOOSE id \in OrderIds : c.url = DetailUrl(id)

\* what the Find endpoint of the orders can answer
OrdersFindAnswers ==
    {[status |-> 200, body |-> JsonDict("results" :> p)] : p \in OrderPages}
    \cup {[status |-> 200, body |-> NonJson],
          [status |-> 500, body |-> JsonDict(ErrorDict)],
          [status |-> 401, body |-> JsonDict(ErrorDict)]}

\* what the GetWithDetails endpoint can answer to the request c: the order,
\* an empty object, a body that is no JSON, an error
GetWithDetailsAnswers(c) ==
    {[status |-> 200, body |-> JsonDict("customerOrderHeaderId" :> OrderIdOf(c))],
     [status |-> 200, body |-> JsonDict(EmptyDict)],
     [status |-> 200, body |-> NonJson],
     [status |-> 500, body |-> JsonDict(ErrorDict)],
     [status |-> 401, body |-> JsonDict(ErrorDict)]}

\* a JSON array with its values (JsonList is the empty one)
JsonArray(vals) == [json |-> TRUE, dict |-> FALSE, data |-> vals]

\* the identifier lists the GetAllIds endpoint of the suppliers can hold:
\* none, a few, exactly one chunk, several chunks and a remainder
SupplierLists ==
    {<<>>,
     <<<<"str", "1">>, <<"str", "2">>, <<"str", "3">>>>,
     <<<<"int", 0>>, <<"int", 7>>, <<"null">>, <<"str", "">>>>,
     [i \in 1..batch_size |-> <<"int", i>>],
     [i \in 1..(MaxFullPages * batch_size + ShortLen) |-> <<"int", i>>]}

IsGetAllIds(c) == c.url = "/VenditPublicApi/Suppliers/GetAllIds"
IsSuppliersGetMultiple(c) == c.url = "/VenditPublicApi/Suppliers/GetMultiple"

\* what the GetAllIds endpoint can answer
GetAllIdsAnswers ==
    {[status |-> 200, body |-> JsonArray(l)] : l \in SupplierLists}
    \cup {[status |-> 200, body |-> NonJson],
          [status |-> 500, body |-> JsonDict(ErrorDict)],
          [status |-> 500, body |-> NonJson],
          [status |-> 401, body |-> JsonDict(ErrorDict)]}

\* what the GetMultiple endpoint of the suppliers can answer to the request c
SuppliersGetMultipleAnswers(c) ==
    {[status |-> 200,
      body |-> JsonDict("items" :> [k \in 1..Len(c.json.primaryKeys) |->
                                       [supplierId |-> c.json.primaryKeys[k]]])],
     [status |-> 200, body |-> JsonDict(EmptyDict)],
     [status |-> 200, body |-> NonJson],
     [status |-> 500, body |-> NonJson],
     [status |-> 401, body |-> JsonDict(ErrorDict)]}

\* streams.py:580-581, 590 and 629: the Find endpoint of the purchase orders
\* and f"{self.path}/{po_id}"
IsPurchaseOrders(c) ==
    \/ c.url = "/VenditPublicApi/PurchaseOrders/Find"
    \/ \E id \in OrderIds : c.url = "/VenditPublicApi/PurchaseOrders/GetWithDetails/" \o id

\* what the two endpoints of the purchase orders can answer to the request c
PurchaseOrdersAnswers(c) ==
    IF c.url = "/VenditPublicApi/PurchaseOrders/Find"
    THEN OrdersFindAnswers
    ELSE {[status |-> 200,
           body |-> JsonDict("productPurchaseOrderId" :>
                        (CHOOSE id \in OrderIds :
                            c.url = "/VenditPublicApi/PurchaseOrders/GetWithDetails/" \o id))],
          [status |-> 200, body |-> JsonDict(EmptyDict)],
          [status |-> 200, body |-> NonJson],
          [status |-> 500, body |-> JsonDict(ErrorDict)],
          [status |-> 401, body |-> JsonDict(ErrorDict)]}

\* what the data server can answer to the request c
DataAnswers(c) ==
    CASE c.url = "/VenditPublicApi/Products/Find" -> FindAnswers(c)
      [] c.url = "/VenditPublicApi/Products/GetMultiple" -> GetMultipleAnswers(c)
      [] IsGetAllIds(c) -> GetAllIdsAnswers
      [] IsPurchaseOrders(c) -> PurchaseOrdersAnswers(c)
      [] IsSuppliersGetMultiple(c) -> SuppliersGetMultipleAnswers(c)
      [] IsOrdersFind(c) -> OrdersFindAnswers
      [] IsGetWithDetails(c) -> GetWithDetailsAnswers(c)
      [] OTHER -> {[status |-> st, body |-> NonJson] : st \in Statuses}

RequestLabels == {"rq", "rq_hdr1", "rq_send1", "rq_401", "rq_hdr2", "rq_send2", "rq_ret"}

\* a call of _request is in progress
InRequest == pc \in RequestLabels \/ \E i \in 1..Len(stack) : stack[i] \in RequestLabels

\* the last call of _request has returned its response to the caller
RequestReturned == ~InRequest /\ pc # "raised" /\ Len(sent) >= 1

\* the last call of _request was left by an exception
RequestRaised == pc = "raised" /\ call.method # ""

\* the call site: _request(method, url, **kwargs), coming back at ret
BeginRequest(c, ret) ==
    /\ call' = c
    /\ glog' = <<>>
    /\ sent' = <<>>
    /\ got' = <<>>
    /\ hdrs' = EmptyDict
    /\ response' = NoResponse
    /\ CallTo("rq", ret)

\* a mutant: the request goes on with a token that failed the check
RequestCheck_no_refresh ==
    /\ pc = "rq"
    /\ IF ~is_token_valid(config, now)
       THEN pc' = "rq_hdr1" /\ UNCHANGED stack /\ Log("check:invalid")
       ELSE pc' = "rq_hdr1" /\ UNCHANGED stack /\ Log("check:valid")
    /\ UNCHANGED <<mode, now, config, file, tries, exc, call, sent, got, hdrs, response, bookmark, context, loc, out, reqs, pages, mods, hist, probe, attempt, details>>

\* line 62-64: if not is_token_valid(): update_access_token()
RequestCheck ==
    /\ pc = "rq"
    /\ IF ~is_token_valid(config, now)
       THEN CallTo("uat", "rq_hdr1") /\ Log("check:invalid")
       ELSE pc' = "rq_hdr1" /\ UNCHANGED stack /\ Log("check:valid")
    /\ UNCHANGED <<mode, now, config, file, tries, exc, call, sent, got, hdrs, response, bookmark, context, loc, out, reqs, pages, mods, hist, probe, attempt, details>>

\* line 66-67: the headers of the caller, updated with auth_headers
RequestHeaders ==
    /\ pc = "rq_hdr1"
    /\ CallTo("ah", "rq_send1")
    /\ UNCHANGED <<mode, now, config, file, tries, exc, call, glog, sent, got, hdrs, response, bookmark, context, loc, out, reqs, pages, mods, hist, probe, attempt, details>>

\* a mutant: every status other than 200 is handled as a 401
RequestSend_refresh_on_error ==
    /\ pc = "rq_send1"
    /\ \E ans \in DataAnswers(call) :
        /\ response' = ans
        /\ got' = Append(got, ans)
        /\ pc' = IF ans.status # 200 THEN "rq_401" ELSE "rq_ret"
    /\ sent' = Append(sent, [method |-> call.method, url |-> call.url, json |-> call.json,
                             headers |-> Update(call.headers, hdrs)])
    /\ Log("send")
    /\ UNCHANGED <<mode, stack, now, config, file, tries, exc, call, hdrs, bookmark, context, loc, out, reqs, pages, mods, hist, probe, attempt, details>>

\* line 68-72: session.request(method, url, **kwargs) and the test of its status
RequestSend ==
    /\ pc = "rq_send1"
    /\ \E ans \in DataAnswers(call) :
        /\ response' = ans
        /\ got' = Append(got, ans)
        /\ pc' = IF ans.status = 401 THEN "rq_401" ELSE "rq_ret"
    /\ sent' = Append(sent, [method |-> call.method, url |-> call.url, json |-> call.json,
                             headers |-> Update(call.headers, hdrs)])
    /\ Log("send")
    /\ UNCHANGED <<mode, stack, now, config, file, tries, exc, call, hdrs, bookmark, context, loc, out, reqs, pages, mods, hist, probe, attempt, details>>

\* a mutant: the 401 is retried without a refresh
RequestRefresh_skipped ==
    /\ pc = "rq_401"
    /\ pc' = "rq_hdr2"
    /\ UNCHANGED <<mode, stack, now, config, file, tries, exc, call, glog, sent, got, hdrs, response, bookmark, context, loc, out, reqs, pages, mods, hist, probe, attempt, details>>

\* line 74: update_access_token(), whatever the token
RequestRefresh ==
    /\ pc = "rq_401"
    /\ CallTo("uat", "rq_hdr2")
    /\ UNCHANGED <<mode, now, config, file, tries, exc, call, glog, sent, got, hdrs, response, bookmark, context, loc, out, reqs, pages, mods, hist, probe, attempt, details>>

\* line 75: headers = auth_headers
RequestRetryHeaders ==
    /\ pc = "rq_hdr2"
    /\ CallTo("ah", "rq_send2")
    /\ UNCHANGED <<mode, now, config, file, tries, exc, call, glog, sent, got, hdrs, response, bookmark, context, loc, out, reqs, pages, mods, hist, probe, attempt, details>>

\* a mutant: a repeated 401 is retried again
RequestRetry_again ==
    /\ pc = "rq_send2"
    /\ \E ans \in DataAnswers(call) :
        /\ response' = ans
        /\ got' = Append(got, ans)
        /\ pc' = IF ans.status = 401 THEN "rq_401" ELSE "rq_ret"
    /\ sent' = Append(sent, [method |-> call.method, url |-> call.url, json |-> call.json,
                             headers |-> hdrs])
    /\ Log("send")
    /\ UNCHANGED <<mode, stack, now, config, file, tries, exc, call, hdrs, bookmark, context, loc, out, reqs, pages, mods, hist, probe, attempt, details>>

\* line 76-77: the same request again, with the new headers alone
RequestRetry ==
    /\ pc = "rq_send2"
    /\ \E ans \in DataAnswers(call) :
        /\ response' = ans
        /\ got' = Append(got, ans)
    /\ sent' = Append(sent, [method |-> call.method, url |-> call.url, json |-> call.json,
                             headers |-> hdrs])
    /\ Log("send")
    /\ pc' = "rq_ret"
    /\ UNCHANGED <<mode, stack, now, config, file, tries, exc, call, hdrs, bookmark, context, loc, out, reqs, pages, mods, hist, probe, attempt, details>>

\* line 78: return response
RequestReturn ==
    /\ pc = "rq_ret"
    /\ Return
    /\ UNCHANGED <<mode, now, config, file, tries, exc, call, glog, sent, got, hdrs, response, bookmark, context, loc, out, reqs, pages, mods, hist, probe, attempt, details>>

----------------------------------------------------------------------------
(* The clock *)

LastInstant(m) == IF m \in UnixStreams THEN StartingSeconds + MaxClock ELSE MaxNow

Tick ==
    /\ mode \in {"gateway"} \cup UnixStreams
    /\ pc # "raised"
    /\ now < LastInstant(mode)
    /\ now' = now + 1
    /\ UNCHANGED <<mode, pc, stack, config, file, tries, exc, call, glog, sent, got, hdrs,
                   response, bookmark, context, loc, out, reqs, pages, mods, hist, probe, attempt, details>>

----------------------------------------------------------------------------
(* The state after construction *)

\* the credentials of the config file
Credentials ==
    ("vendit_api_key" :> Some("key")) @@ ("username" :> Some("u")) @@ ("password" :> Some("p"))

\* what the token file can hold when the process starts
FileInits ==
    {[kind |-> "missing", data |-> EmptyDict],
     [kind |-> "malformed", data |-> EmptyDict],
     [kind |-> "json", data |-> Credentials]}
    \cup {[kind |-> "json",
           data |-> Credentials @@ ("token" :> Some(tk)) @@ ("token_expire" :> Some(e))] :
            tk \in Tokens, e \in ExpireChoices}

\* the history of the passes of a unix-cursor stream:
\*   n            the passes begun
\*   first_lower  the lower bound the first pass requested
\*   began        the instant the pass in progress (or the last pass) began
\*   fetched      the instant its request was answered, None before that
\*   delivered    the instants of modification whose item some pass was sent
\*   persisted    the value a pass stored last in the context object
\*   complete     every pass so far was answered 200 with a list of items
\*                and consumed to its end
NoPasses ==
    [n |-> 0, first_lower |-> None, began |-> None, fetched |-> None, delivered |-> {},
     persisted |-> None, complete |-> TRUE]

\* the locals and the histories before anything ran
InitLocals ==
    /\ stack = <<>>
    /\ tries = 0
    /\ exc = None
    /\ call = NoCall
    /\ glog = <<>>
    /\ sent = <<>>
    /\ got = <<>>
    /\ hdrs = EmptyDict
    /\ response = NoResponse
    /\ loc = EmptyDict
    /\ out = <<>>
    /\ reqs = <<>>
    /\ pages = <<>>
    /\ mods = {}
    /\ hist = NoPasses
    /\ probe = None
    /\ attempt = None
    /\ details = <<>>

\* tap.py:96-113 and client.py:39-42: the config is loaded, then the
\* authenticator of the stream reads the token file into it
InitCommon ==
    /\ InitLocals
    /\ now \in 0..MaxNow
    /\ file \in FileInits
    /\ config = LoadToken(Credentials, file)

----------------------------------------------------------------------------
(* Driver: calls of the gateway, one after the other *)

Methods == {"GET", "POST"}
CallerHeaders == {EmptyDict, ("Accept" :> Some("application/json"))}

GatewayCall ==
    /\ mode = "gateway"
    /\ pc = "idle"
    /\ \E m \in Methods, h \in CallerHeaders :
        BeginRequest([method |-> m, url |-> "/x", json |-> IF m = "POST" THEN "payload" ELSE "",
                      headers |-> h], "idle")
    /\ UNCHANGED <<mode, now, config, file, tries, exc, bookmark, context, loc, out, reqs, pages, mods, hist, probe, attempt, details>>

InitGateway ==
    /\ mode = "gateway"
    /\ pc = "idle"
    /\ InitCommon
    /\ bookmark = None
    /\ context = None

Authenticator ==
    \/ UpdateEnter
    \/ UpdateAttempt
    \/ AuthHeadersCheck
    \/ AuthHeadersBuild

Engine ==
    \/ Authenticator
    \/ RequestCheck
    \/ RequestHeaders
    \/ RequestSend
    \/ RequestRefresh
    \/ RequestRetryHeaders
    \/ RequestRetry
    \/ RequestReturn

NextGateway == Engine \/ Tick \/ GatewayCall

SpecGateway == InitGateway /\ [][NextGateway]_vars

----------------------------------------------------------------------------
(* Driver: calls of update_access_token, one after the other *)

\* (loc keeps the token state the call found, for the properties)
RefreshCall ==
    /\ mode = "auth"
    /\ pc = "idle"
    /\ glog' = <<>>
    /\ attempt' = None
    /\ loc' = [config |-> config, file |-> file]
    /\ CallTo("uat", "idle")
    /\ UNCHANGED <<mode, now, config, file, tries, exc, call, sent, got, hdrs, response,
                   bookmark, context, out, reqs, pages, mods, hist, probe, details>>

InitAuth ==
    /\ mode = "auth"
    /\ pc = "idle"
    /\ InitCommon
    /\ bookmark = None
    /\ context = None

NextAuth == UpdateEnter \/ UpdateAttempt \/ RefreshCall

SpecAuth == InitAuth /\ [][NextAuth]_vars

----------------------------------------------------------------------------
(* Driver: the streams of a run read auth_headers, one after the other.    *)
(* Each stream has an authenticator of its own (client.py:39-42); all of   *)
(* them read and write tap._config (auth.py:169, 209-211, 273).            *)

StreamNames == {"products", "orders"}

\* nobody refreshed yet
NoReader == [stream |-> "", last |-> None]

\* loc.stream is the stream whose authenticator is read; loc.last is the
\* stream whose authenticator refreshed last, with the token it obtained
\* (history, taken from the answer of the token endpoint)
HeadersCall ==
    /\ mode = "headers"
    /\ pc = "idle"
    /\ \E s \in StreamNames :
        LET prev == IF loc = EmptyDict THEN NoReader ELSE loc IN
        loc' = [stream |-> s,
                last |-> IF attempt # None /\ attempt[1].error = ""
                         THEN Some([stream |-> prev.stream, info |-> TokenInfo(attempt[1].answer)])
                         ELSE prev.last]
    /\ glog' = <<>>
    /\ attempt' = None
    /\ CallTo("ah", "idle")
    /\ UNCHANGED <<mode, now, config, file, tries, exc, call, sent, got, hdrs, response,
                   bookmark, context, out, reqs, pages, mods, hist, probe, details>>

InitHeaders ==
    /\ mode = "headers"
    /\ pc = "idle"
    /\ InitCommon
    /\ bookmark = None
    /\ context = None

NextHeaders == Authenticator \/ HeadersCall

SpecHeaders == InitHeaders /\ [][NextHeaders]_vars

----------------------------------------------------------------------------
(* streams.py: BaseStream.get_starting_time                                *)

\* datetime.fromisoformat on the strings of the model: the datetime, or
\* <<>> when the string is no ISO date (ValueError)
fromisoformat(s) ==
    CASE s = "2024-03-01T00:00:00" ->
            Some([year |-> 2024, month |-> 3, day |-> 1, hour |-> 0, minute |-> 0, second |-> 0])
      [] s = "2023-01-15" ->
            Some([year |-> 2023, month |-> 1, day |-> 15, hour |-> 0, minute |-> 0, second |-> 0])
      [] s = "2025-07-04T12:30:45" ->
            Some([year |-> 2025, month |-> 7, day |-> 4, hour |-> 12, minute |-> 30, second |-> 45])
      [] OTHER -> None

\* datetime(1970, 1, 1)
Epoch == [year |-> 1970, month |-> 1, day |-> 1, hour |-> 0, minute |-> 0, second |-> 0]

\* the strings a saved value or a configured start_date can be
DateStrings == {"", "2024-03-01T00:00:00", "2023-01-15", "2025-07-04T12:30:45", "yesterday"}
OptDateStrings == {None} \cup {Some(d) : d \in DateStrings}

\* line 52: self.get_starting_replication_key_value(context), the SDK's
\* answer: the value it saved for the stream
get_starting_replication_key_value(bm) == bm

\* a mutant: start_date is looked at first
get_starting_time_config_first(cfg, bm) ==
    LET replication_key_value == get_starting_replication_key_value(bm)
        start_date == Get(cfg, "start_date")
    IN  IF TruthyStr(start_date) THEN fromisoformat(start_date[1])
        ELSE IF TruthyStr(replication_key_value) THEN fromisoformat(replication_key_value[1])
        ELSE Some(Epoch)

\* BaseStream.get_starting_time: the datetime returned, <<>> for a ValueError
get_starting_time(cfg, bm) ==
    LET replication_key_value == get_starting_replication_key_value(bm)
        start_date == Get(cfg, "start_date")
    IN  IF TruthyStr(replication_key_value) THEN fromisoformat(replication_key_value[1])
        ELSE IF TruthyStr(start_date) THEN fromisoformat(start_date[1])
        ELSE Some(Epoch)

----------------------------------------------------------------------------
(* streams.py: ProductsStream.get_records (the loop of                      *)
(* BaseFindStream.get_all_ids_with_filter, then the GetMultiple loop)       *)

\* Python truthiness and str() of a JSON value of a result list
JsonTruthy(v) ==
    CASE v[1] = "int" -> v[2] # 0
      [] v[1] = "str" -> v[2] # ""
      [] OTHER -> FALSE
str(v) == IF v[1] = "int" THEN ToString(v[2]) ELSE v[2]

\* [str(i) for i in ids if i]
KeptIds(ids) ==
    LET kept == SelectSeq(ids, JsonTruthy)
    IN  [k \in 1..Len(kept) |-> str(kept[k])]

\* start_date.strftime("%Y-%m-%dT%H:%M:%S.000")
Pad2(n) == IF n < 10 THEN "0" \o ToString(n) ELSE ToString(n)
strftime(dt) ==
    ToString(dt.year) \o "-" \o Pad2(dt.month) \o "-" \o Pad2(dt.day) \o "T"
        \o Pad2(dt.hour) \o ":" \o Pad2(dt.minute) \o ":" \o Pad2(dt.second) \o ".000"

\* line 426-436: the payload of a Find request
FindPayload(start_date, offset) ==
    [fieldFilters |-> <<[field |-> 204, value |-> strftime(start_date), filterComparison |-> 2]>>,
     paginationOffset |-> offset,
     operator |-> 0]

\* line 417-424
ProductsStart ==
    /\ pc = "ps"
    /\ LET sd == get_starting_time(config, bookmark) IN
        IF sd = None
        THEN Raise("ValueError") /\ UNCHANGED loc
        ELSE /\ loc' = [start_date |-> sd[1], all_ids |-> <<>>, offset |-> 0, i |-> 0]
             /\ pc' = "ps_find"
             /\ UNCHANGED <<stack, exc>>
    /\ UNCHANGED <<mode, now, config, file, tries, call, glog, sent, got, hdrs, response,
                   bookmark, context, out, reqs, pages, mods, hist, probe, attempt, details>>

\* line 425-437: the Find request of the page at loc.offset
ProductsFind ==
    /\ pc = "ps_find"
    /\ LET c == [method |-> "POST", url |-> "/VenditPublicApi/Products/Find",
                 json |-> FindPayload(loc.start_date, loc.offset), headers |-> EmptyDict]
       IN  /\ BeginRequest(c, "ps_page")
           /\ reqs' = Append(reqs, c)
    /\ UNCHANGED <<mode, now, config, file, tries, exc, bookmark, context, loc, out, pages, mods, hist, probe, attempt, details>>

\* a mutant: a full page ends the loop too
ProductsPage_stop_at_full ==
    /\ pc = "ps_page"
    /\ LET body == response.body
           ids == IF "results" \in DOMAIN body.data THEN body.data["results"] ELSE <<>>
       IN  IF ~body.json
           THEN Raise("JSONDecodeError") /\ UNCHANGED <<loc, pages>>
           ELSE IF ~body.dict
           THEN Raise("AttributeError") /\ UNCHANGED <<loc, pages>>
           ELSE /\ pages' = Append(pages, ids)
                /\ UNCHANGED <<stack, exc>>
                /\ IF ids = <<>>
                   THEN pc' = "ps_ids" /\ UNCHANGED loc
                   ELSE IF Len(ids) <= page_size
                   THEN /\ pc' = "ps_ids"
                        /\ loc' = [loc EXCEPT !.all_ids = @ \o KeptIds(ids)]
                   ELSE /\ pc' = "ps_find"
                        /\ loc' = [loc EXCEPT !.all_ids = @ \o KeptIds(ids),
                                              !.offset = @ + page_size]
    /\ UNCHANGED <<mode, now, config, file, tries, call, glog, sent, got, hdrs, response,
                   bookmark, context, out, reqs, mods, hist, probe, attempt, details>>

\* a mutant: the offset advances by the number of identifiers kept
ProductsPage_offset_by_kept ==
    /\ pc = "ps_page"
    /\ LET body == response.body
           ids == IF "results" \in DOMAIN body.data THEN body.data["results"] ELSE <<>>
       IN  IF ~body.json
           THEN Raise("JSONDecodeError") /\ UNCHANGED <<loc, pages>>
           ELSE IF ~body.dict
           THEN Raise("AttributeError") /\ UNCHANGED <<loc, pages>>
           ELSE /\ pages' = Append(pages, ids)
                /\ UNCHANGED <<stack, exc>>
                /\ IF ids = <<>>
                   THEN pc' = "ps_ids" /\ UNCHANGED loc
                   ELSE IF Len(ids) < page_size
                   THEN /\ pc' = "ps_ids"
                        /\ loc' = [loc EXCEPT !.all_ids = @ \o KeptIds(ids)]
                   ELSE /\ pc' = "ps_find"
                        /\ loc' = [loc EXCEPT !.all_ids = @ \o KeptIds(ids),
                                              !.offset = @ + Len(KeptIds(ids))]
    /\ UNCHANGED <<mode, now, config, file, tries, call, glog, sent, got, hdrs, response,
                   bookmark, context, out, reqs, mods, hist, probe, attempt, details>>

\* a mutant: a body that is no JSON counts as a page without results
ProductsPage_swallowing ==
    /\ pc = "ps_page"
    /\ LET body == response.body
           ids == IF "results" \in DOMAIN body.data THEN body.data["results"] ELSE <<>>
       IN  IF ~body.json
           THEN pc' = "ps_ids" /\ UNCHANGED <<stack, exc, loc, pages>>
           ELSE IF ~body.dict
           THEN Raise("AttributeError") /\ UNCHANGED <<loc, pages>>
           ELSE /\ pages' = Append(pages, ids)
                /\ UNCHANGED <<stack, exc>>
                /\ IF ids = <<>>
                   THEN pc' = "ps_ids" /\ UNCHANGED loc
                   ELSE IF Len(ids) < page_size
                   THEN /\ pc' = "ps_ids"
                        /\ loc' = [loc EXCEPT !.all_ids = @ \o KeptIds(ids)]
                   ELSE /\ pc' = "ps_find"
                        /\ loc' = [loc EXCEPT !.all_ids = @ \o KeptIds(ids),
                                              !.offset = @ + page_size]
    /\ UNCHANGED <<mode, now, config, file, tries, call, glog, sent, got, hdrs, response,
                   bookmark, context, out, reqs, mods, hist, probe, attempt, details>>

\* a mutant: every value of a page is kept, falsy or not
ProductsPage_keeping_falsy ==
    /\ pc = "ps_page"
    /\ LET body == response.body
           ids == IF "results" \in DOMAIN body.data THEN body.data["results"] ELSE <<>>
           all == [k \in 1..Len(ids) |-> IF ids[k][1] = "null" THEN "None" ELSE str(ids[k])]
       IN  IF ~body.json
           THEN Raise("JSONDecodeError") /\ UNCHANGED <<loc, pages>>
           ELSE IF ~body.dict
           THEN Raise("AttributeError") /\ UNCHANGED <<loc, pages>>
           ELSE /\ pages' = Append(pages, ids)
                /\ UNCHANGED <<stack, exc>>
                /\ IF ids = <<>>
                   THEN pc' = "ps_ids" /\ UNCHANGED loc
                   ELSE IF Len(ids) < page_size
                   THEN /\ pc' = "ps_ids"
                        /\ loc' = [loc EXCEPT !.all_ids = @ \o all]
                   ELSE /\ pc' = "ps_find"
                        /\ loc' = [loc EXCEPT !.all_ids = @ \o all,
                                              !.offset = @ + page_size]
    /\ UNCHANGED <<mode, now, config, file, tries, call, glog, sent, got, hdrs, response,
                   bookmark, context, out, reqs, mods, hist, probe, attempt, details>>

\* a mutant: a Find response that is not answered 200 raises
ProductsPage_raising_on_status ==
    /\ pc = "ps_page"
    /\ LET body == response.body
           ids == IF "results" \in DOMAIN body.data THEN body.data["results"] ELSE <<>>
       IN  IF response.status # 200
           THEN Raise("HTTPError") /\ UNCHANGED <<loc, pages>>
           ELSE IF ~body.json
           THEN Raise("JSONDecodeError") /\ UNCHANGED <<loc, pages>>
           ELSE IF ~body.dict
           THEN Raise("AttributeError") /\ UNCHANGED <<loc, pages>>
           ELSE /\ pages' = Append(pages, ids)
                /\ UNCHANGED <<stack, exc>>
                /\ IF ids = <<>>
                   THEN pc' = "ps_ids" /\ UNCHANGED loc
                   ELSE IF Len(ids) < page_size
                   THEN /\ pc' = "ps_ids"
                        /\ loc' = [loc EXCEPT !.all_ids = @ \o KeptIds(ids)]
                   ELSE /\ pc' = "ps_find"
                        /\ loc' = [loc EXCEPT !.all_ids = @ \o KeptIds(ids),
                                              !.offset = @ + page_size]
    /\ UNCHANGED <<mode, now, config, file, tries, call, glog, sent, got, hdrs, response,
                   bookmark, context, out, reqs, mods, hist, probe, attempt, details>>

\* a mutant: the short-page test counts the identifiers kept
ProductsPage_counting_kept ==
    /\ pc = "ps_page"
    /\ LET body == response.body
           ids == IF "results" \in DOMAIN body.data THEN body.data["results"] ELSE <<>>
       IN  IF ~body.json
           THEN Raise("JSONDecodeError") /\ UNCHANGED <<loc, pages>>
           ELSE IF ~body.dict
           THEN Raise("AttributeError") /\ UNCHANGED <<loc, pages>>
           ELSE /\ pages' = Append(pages, ids)
                /\ UNCHANGED <<stack, exc>>
                /\ IF ids = <<>>
                   THEN pc' = "ps_ids" /\ UNCHANGED loc
                   ELSE IF Len(KeptIds(ids)) < page_size
                   THEN /\ pc' = "ps_ids"
                        /\ loc' = [loc EXCEPT !.all_ids = @ \o KeptIds(ids)]
                   ELSE /\ pc' = "ps_find"
                        /\ loc' = [loc EXCEPT !.all_ids = @ \o KeptIds(ids),
                                              !.offset = @ + page_size]
    /\ UNCHANGED <<mode, now, config, file, tries, call, glog, sent, got, hdrs, response,
                   bookmark, context, out, reqs, mods, hist, probe, attempt, details>>

\* line 438-450: the page is read and the loop goes on or ends
ProductsPage ==
    /\ pc = "ps_page"
    /\ LET body == response.body
           ids == IF "results" \in DOMAIN body.data THEN body.data["results"] ELSE <<>>
       IN  IF ~body.json
           THEN Raise("JSONDecodeError") /\ UNCHANGED <<loc, pages>>
           ELSE IF ~body.dict
           THEN Raise("AttributeError") /\ UNCHANGED <<loc, pages>>
           ELSE /\ pages' = Append(pages, ids)
                /\ UNCHANGED <<stack, exc>>
                /\ IF ids = <<>>
                   THEN pc' = "ps_ids" /\ UNCHANGED loc
                   ELSE IF Len(ids) < page_size
                   THEN /\ pc' = "ps_ids"
                        /\ loc' = [loc EXCEPT !.all_ids = @ \o KeptIds(ids)]
                   ELSE /\ pc' = "ps_find"
                        /\ loc' = [loc EXCEPT !.all_ids = @ \o KeptIds(ids),
                                              !.offset = @ + page_size]
    /\ UNCHANGED <<mode, now, config, file, tries, call, glog, sent, got, hdrs, response,
                   bookmark, context, out, reqs, mods, hist, probe, attempt, details>>

\* line 451-457: no identifier, no detail request
ProductsIds ==
    /\ pc = "ps_ids"
    /\ pc' = IF loc.all_ids = <<>> THEN "done" ELSE "ps_batch"
    /\ loc' = [loc EXCEPT !.i = 0]
    /\ UNCHANGED <<mode, stack, now, config, file, tries, exc, call, glog, sent, got, hdrs,
                   response, bookmark, context, out, reqs, pages, mods, hist, probe, attempt, details>>

\* a mutant: a batch carries every identifier up to its end
ProductsBatch_from_first ==
    /\ pc = "ps_batch"
    /\ IF loc.i >= Len(loc.all_ids)
       THEN /\ pc' = "done"
            /\ UNCHANGED <<stack, call, glog, sent, got, hdrs, response, reqs>>
       ELSE LET upto == IF loc.i + batch_size < Len(loc.all_ids)
                        THEN loc.i + batch_size ELSE Len(loc.all_ids)
                c == [method |-> "POST", url |-> "/VenditPublicApi/Products/GetMultiple",
                      json |-> [primaryKeys |-> SubSeq(loc.all_ids, 1, upto)],
                      headers |-> EmptyDict]
            IN  /\ BeginRequest(c, "ps_items")
                /\ reqs' = Append(reqs, c)
    /\ UNCHANGED <<mode, now, config, file, tries, exc, bookmark, context, loc, out, pages, mods, hist, probe, attempt, details>>

\* line 458-461: the GetMultiple request of the batch at loc.i
ProductsBatch ==
    /\ pc = "ps_batch"
    /\ IF loc.i >= Len(loc.all_ids)
       THEN /\ pc' = "done"
            /\ UNCHANGED <<stack, call, glog, sent, got, hdrs, response, reqs>>
       ELSE LET upto == IF loc.i + batch_size < Len(loc.all_ids)
                        THEN loc.i + batch_size ELSE Len(loc.all_ids)
                c == [method |-> "POST", url |-> "/VenditPublicApi/Products/GetMultiple",
                      json |-> [primaryKeys |-> SubSeq(loc.all_ids, loc.i + 1, upto)],
                      headers |-> EmptyDict]
            IN  /\ BeginRequest(c, "ps_items")
                /\ reqs' = Append(reqs, c)
    /\ UNCHANGED <<mode, now, config, file, tries, exc, bookmark, context, loc, out, pages, mods, hist, probe, attempt, details>>

\* a mutant: a batch that is not answered 200 ends the loop
ProductsItems_break_on_error ==
    /\ pc = "ps_items"
    /\ details' = Append(details, response)
    /\ LET body == response.body IN
        IF response.status # 200
        THEN /\ pc' = "done"
             /\ loc' = [loc EXCEPT !.i = @ + batch_size]
             /\ UNCHANGED <<stack, exc, out>>
        ELSE IF ~body.json
        THEN Raise("JSONDecodeError") /\ UNCHANGED <<loc, out>>
        ELSE IF ~body.dict
        THEN Raise("AttributeError") /\ UNCHANGED <<loc, out>>
        ELSE /\ out' = out \o (IF "items" \in DOMAIN body.data THEN body.data["items"] ELSE <<>>)
             /\ pc' = "ps_batch"
             /\ loc' = [loc EXCEPT !.i = @ + batch_size]
             /\ UNCHANGED <<stack, exc>>
    /\ UNCHANGED <<mode, now, config, file, tries, call, glog, sent, got, hdrs, response,
                   bookmark, context, reqs, pages, mods, hist, probe, attempt>>

\* the sequence backwards
Reversed(q) == [k \in 1..Len(q) |-> q[Len(q) + 1 - k]]

\* a mutant: the items of a batch are yielded last to first
ProductsItems_reversed ==
    /\ pc = "ps_items"
    /\ details' = Append(details, response)
    /\ LET body == response.body IN
        IF response.status # 200
        THEN /\ pc' = "ps_batch"
             /\ loc' = [loc EXCEPT !.i = @ + batch_size]
             /\ UNCHANGED <<stack, exc, out>>
        ELSE IF ~body.json
        THEN Raise("JSONDecodeError") /\ UNCHANGED <<loc, out>>
        ELSE IF ~body.dict
        THEN Raise("AttributeError") /\ UNCHANGED <<loc, out>>
        ELSE /\ out' = out \o Reversed(IF "items" \in DOMAIN body.data THEN body.data["items"] ELSE <<>>)
             /\ pc' = "ps_batch"
             /\ loc' = [loc EXCEPT !.i = @ + batch_size]
             /\ UNCHANGED <<stack, exc>>
    /\ UNCHANGED <<mode, now, config, file, tries, call, glog, sent, got, hdrs, response,
                   bookmark, context, reqs, pages, mods, hist, probe, attempt>>

\* a mutant: after a batch the pass asks Find for one more page
ProductsItems_finding_again ==
    /\ pc = "ps_items"
    /\ details' = Append(details, response)
    /\ LET body == response.body IN
        IF response.status # 200
        THEN /\ pc' = "ps_batch"
             /\ loc' = [loc EXCEPT !.i = @ + batch_size]
             /\ UNCHANGED <<stack, exc, out>>
        ELSE IF ~body.json
        THEN Raise("JSONDecodeError") /\ UNCHANGED <<loc, out>>
        ELSE IF ~body.dict
        THEN Raise("AttributeError") /\ UNCHANGED <<loc, out>>
        ELSE /\ out' = out \o (IF "items" \in DOMAIN body.data THEN body.data["items"] ELSE <<>>)
             /\ pc' = "ps_find"
             /\ loc' = [loc EXCEPT !.i = @ + batch_size, !.offset = @ + page_size]
             /\ UNCHANGED <<stack, exc>>
    /\ UNCHANGED <<mode, now, config, file, tries, call, glog, sent, got, hdrs, response,
                   bookmark, context, reqs, pages, mods, hist, probe, attempt>>

\* line 462-467: the items of the batch are yielded, or the batch is skipped
ProductsItems ==
    /\ pc = "ps_items"
    /\ details' = Append(details, response)
    /\ LET body == response.body IN
        IF response.status # 200
        THEN /\ pc' = "ps_batch"
             /\ loc' = [loc EXCEPT !.i = @ + batch_size]
             /\ UNCHANGED <<stack, exc, out>>
        ELSE IF ~body.json
        THEN Raise("JSONDecodeError") /\ UNCHANGED <<loc, out>>
        ELSE IF ~body.dict
        THEN Raise("AttributeError") /\ UNCHANGED <<loc, out>>
        ELSE /\ out' = out \o (IF "items" \in DOMAIN body.data THEN body.data["items"] ELSE <<>>)
             /\ pc' = "ps_batch"
             /\ loc' = [loc EXCEPT !.i = @ + batch_size]
             /\ UNCHANGED <<stack, exc>>
    /\ UNCHANGED <<mode, now, config, file, tries, call, glog, sent, got, hdrs, response,
                   bookmark, context, reqs, pages, mods, hist, probe, attempt>>

\* the state before a pass of the products stream
InitProducts ==
    /\ mode = "products"
    /\ pc = "ps"
    /\ InitLocals
    /\ now = 0
    /\ file \in {[kind |-> "missing", data |-> EmptyDict],
                  [kind |-> "json",
                   data |-> Credentials @@ ("token" :> Some("tB"))
                            @@ ("token_expire" :> Some(SafetyMargin + MaxNow))]}
    /\ config = LoadToken(Credentials, file)
    /\ bookmark \in {None, Some("2024-03-01T00:00:00"), Some("yesterday")}
    /\ context = None

Products ==
    \/ ProductsStart
    \/ ProductsFind
    \/ ProductsPage
    \/ ProductsIds
    \/ ProductsBatch
    \/ ProductsItems

NextProducts == Engine \/ Products

SpecProducts == InitProducts /\ [][NextProducts]_vars

----------------------------------------------------------------------------
(* streams.py: OrdersStream.get_records (the Find loop, then one            *)
(* GetWithDetails request for each identifier)                              *)

\* line 523-528
OrdersStart ==
    /\ pc = "os"
    /\ LET sd == get_starting_time(config, bookmark) IN
        IF sd = None
        THEN Raise("ValueError") /\ UNCHANGED loc
        ELSE /\ loc' = [start_date |-> sd[1], all_ids |-> <<>>, offset |-> 0, i |-> 0]
             /\ pc' = "os_find"
             /\ UNCHANGED <<stack, exc>>
    /\ UNCHANGED <<mode, now, config, file, tries, call, glog, sent, got, hdrs, response,
                   bookmark, context, out, reqs, pages, mods, hist, probe, attempt, details>>

\* line 529-541: the Find request of the page at loc.offset
OrdersFind ==
    /\ pc = "os_find"
    /\ LET c == [method |-> "POST", url |-> "/VenditPublicApi/Orders/Find",
                 json |-> FindPayload(loc.start_date, loc.offset), headers |-> EmptyDict]
       IN  /\ BeginRequest(c, "os_page")
           /\ reqs' = Append(reqs, c)
    /\ UNCHANGED <<mode, now, config, file, tries, exc, bookmark, context, loc, out, pages, mods, hist, probe, attempt, details>>

\* line 542-554: the page is read and the loop goes on or ends
OrdersPage ==
    /\ pc = "os_page"
    /\ LET body == response.body
           ids == IF "results" \in DOMAIN body.data THEN body.data["results"] ELSE <<>>
       IN  IF ~body.json
           THEN Raise("JSONDecodeError") /\ UNCHANGED <<loc, pages>>
           ELSE IF ~body.dict
           THEN Raise("AttributeError") /\ UNCHANGED <<loc, pages>>
           ELSE /\ pages' = Append(pages, ids)
                /\ UNCHANGED <<stack, exc>>
                /\ IF ids = <<>>
                   THEN pc' = "os_ids" /\ UNCHANGED loc
                   ELSE IF Len(ids) < page_size
                   THEN /\ pc' = "os_ids"
                        /\ loc' = [loc EXCEPT !.all_ids = @ \o KeptIds(ids)]
                   ELSE /\ pc' = "os_find"
                        /\ loc' = [loc EXCEPT !.all_ids = @ \o KeptIds(ids),
                                              !.offset = @ + page_size]
    /\ UNCHANGED <<mode, now, config, file, tries, call, glog, sent, got, hdrs, response,
                   bookmark, context, out, reqs, mods, hist, probe, attempt, details>>

\* line 555-560: no identifier, no detail request
OrdersIds ==
    /\ pc = "os_ids"
    /\ pc' = IF loc.all_ids = <<>> THEN "done" ELSE "os_item"
    /\ loc' = [loc EXCEPT !.i = 0]
    /\ UNCHANGED <<mode, stack, now, config, file, tries, exc, call, glog, sent, got, hdrs,
                   response, bookmark, context, out, reqs, pages, mods, hist, probe, attempt, details>>

\* line 561-563: the GET of the identifier at loc.i, or the end of the loop
OrdersItem ==
    /\ pc = "os_item"
    /\ IF loc.i >= Len(loc.all_ids)
       THEN /\ pc' = "done"
            /\ UNCHANGED <<stack, call, glog, sent, got, hdrs, response, reqs>>
       ELSE LET c == [method |-> "GET", url |-> DetailUrl(loc.all_ids[loc.i + 1]),
                      json |-> "", headers |-> EmptyDict]
            IN  /\ BeginRequest(c, "os_detail")
                /\ reqs' = Append(reqs, c)
    /\ UNCHANGED <<mode, now, config, file, tries, exc, bookmark, context, loc, out, pages, mods, hist, probe, attempt, details>>

\* a mutant: an identifier that is not answered 200 ends the loop
OrdersDetail_break_on_error ==
    /\ pc = "os_detail"
    /\ details' = Append(details, response)
    /\ LET data == response.body IN
        IF response.status # 200
        THEN /\ pc' = "done"
             /\ loc' = [loc EXCEPT !.i = @ + 1]
             /\ UNCHANGED <<stack, exc, out>>
        ELSE IF ~data.json
        THEN Raise("JSONDecodeError") /\ UNCHANGED <<loc, out>>
        ELSE /\ out' = IF data.data # EmptyDict THEN Append(out, data.data) ELSE out
             /\ pc' = "os_item"
             /\ loc' = [loc EXCEPT !.i = @ + 1]
             /\ UNCHANGED <<stack, exc>>
    /\ UNCHANGED <<mode, now, config, file, tries, call, glog, sent, got, hdrs, response,
                   bookmark, context, reqs, pages, mods, hist, probe, attempt>>

\* line 564-569: the body is yielded if it is truthy, or the identifier is skipped
\* (the truthy bodies of the model are the JSON objects with a key)
OrdersDetail ==
    /\ pc = "os_detail"
    /\ details' = Append(details, response)
    /\ LET data == response.body IN
        IF response.status # 200
        THEN /\ pc' = "os_item"
             /\ loc' = [loc EXCEPT !.i = @ + 1]
             /\ UNCHANGED <<stack, exc, out>>
        ELSE IF ~data.json
        THEN Raise("JSONDecodeError") /\ UNCHANGED <<loc, out>>
        ELSE /\ out' = IF data.data # EmptyDict THEN Append(out, data.data) ELSE out
             /\ pc' = "os_item"
             /\ loc' = [loc EXCEPT !.i = @ + 1]
             /\ UNCHANGED <<stack, exc>>
    /\ UNCHANGED <<mode, now, config, file, tries, call, glog, sent, got, hdrs, response,
                   bookmark, context, reqs, pages, mods, hist, probe, attempt>>

\* the state before a pass of the orders stream
InitOrders ==
    /\ mode = "orders"
    /\ pc = "os"
    /\ InitLocals
    /\ now = 0
    /\ file \in {[kind |-> "missing", data |-> EmptyDict],
                  [kind |-> "json",
                   data |-> Credentials @@ ("token" :> Some("tB"))
                            @@ ("token_expire" :> Some(SafetyMargin + MaxNow))]}
    /\ config = LoadToken(Credentials, file)
    /\ bookmark \in {None, Some("2024-03-01T00:00:00"), Some("yesterday")}
    /\ context = None

Orders ==
    \/ OrdersStart
    \/ OrdersFind
    \/ OrdersPage
    \/ OrdersIds
    \/ OrdersItem
    \/ OrdersDetail

NextOrders == Engine \/ Orders

SpecOrders == InitOrders /\ [][NextOrders]_vars

\* a pass of either stream
InitStreams == InitProducts \/ InitOrders

NextStreams == Engine \/ Products \/ Orders

SpecStreams == InitStreams /\ [][NextStreams]_vars

----------------------------------------------------------------------------
(* streams.py: SuppliersStream.get_records (one GetAllIds request, then     *)
(* GetMultiple by chunks)                                                   *)

\* for i in data: the values of a JSON array, the keys of a JSON object
\* (the objects answered here have at most one key)
IterJson(body) ==
    IF body.dict
    THEN IF body.data = EmptyDict THEN <<>>
         ELSE <<<<"str", CHOOSE k \in DOMAIN body.data : TRUE>>>>
    ELSE body.data

\* line 482-485: the GetAllIds request: a GET without payload
SuppliersStart ==
    /\ pc = "ss"
    /\ loc' = [supplier_ids |-> <<>>, i |-> 0]
    /\ LET c == [method |-> "GET", url |-> "/VenditPublicApi/Suppliers/GetAllIds",
                 json |-> "", headers |-> EmptyDict]
       IN  /\ BeginRequest(c, "ss_ids")
           /\ reqs' = Append(reqs, c)
    /\ UNCHANGED <<mode, now, config, file, tries, exc, bookmark, context, out, pages, mods,
                   hist, probe, attempt, details>>

\* a mutant: a list of a full page or more is asked for once more
SuppliersIds_paging ==
    /\ pc = "ss_ids"
    /\ LET body == response.body
           ids == KeptIds(IterJson(body))
       IN  IF ~body.json
           THEN Raise("JSONDecodeError") /\ UNCHANGED loc
           ELSE /\ loc' = [loc EXCEPT !.supplier_ids = ids]
                /\ pc' = IF ids = <<>> THEN "done"
                         ELSE IF Len(ids) >= page_size THEN "ss" ELSE "ss_batch"
                /\ UNCHANGED <<stack, exc>>
    /\ UNCHANGED <<mode, now, config, file, tries, call, glog, sent, got, hdrs, response,
                   bookmark, context, out, reqs, pages, mods, hist, probe, attempt, details>>

\* line 486-495: the body is parsed, whatever the status; its truthy values
\* are the identifiers; without identifiers the pass ends
SuppliersIds ==
    /\ pc = "ss_ids"
    /\ LET body == response.body
           ids == KeptIds(IterJson(body))
       IN  IF ~body.json
           THEN Raise("JSONDecodeError") /\ UNCHANGED loc
           ELSE /\ loc' = [loc EXCEPT !.supplier_ids = ids]
                /\ pc' = IF ids = <<>> THEN "done" ELSE "ss_batch"
                /\ UNCHANGED <<stack, exc>>
    /\ UNCHANGED <<mode, now, config, file, tries, call, glog, sent, got, hdrs, response,
                   bookmark, context, out, reqs, pages, mods, hist, probe, attempt, details>>

\* line 498-502: the GetMultiple request of the batch at loc.i
SuppliersBatch ==
    /\ pc = "ss_batch"
    /\ IF loc.i >= Len(loc.supplier_ids)
       THEN /\ pc' = "done"
            /\ UNCHANGED <<stack, call, glog, sent, got, hdrs, response, reqs>>
       ELSE LET upto == IF loc.i + batch_size < Len(loc.supplier_ids)
                        THEN loc.i + batch_size ELSE Len(loc.supplier_ids)
                c == [method |-> "POST", url |-> "/VenditPublicApi/Suppliers/GetMultiple",
                      json |-> [primaryKeys |-> SubSeq(loc.supplier_ids, loc.i + 1, upto)],
                      headers |-> EmptyDict]
            IN  /\ BeginRequest(c, "ss_items")
                /\ reqs' = Append(reqs, c)
    /\ UNCHANGED <<mode, now, config, file, tries, exc, bookmark, context, loc, out, pages, mods, hist, probe, attempt, details>>

\* line 503-508: the items of the batch are yielded, or the batch is skipped
SuppliersItems ==
    /\ pc = "ss_items"
    /\ details' = Append(details, response)
    /\ LET body == response.body IN
        IF response.status # 200
        THEN /\ pc' = "ss_batch"
             /\ loc' = [loc EXCEPT !.i = @ + batch_size]
             /\ UNCHANGED <<stack, exc, out>>
        ELSE IF ~body.json
        THEN Raise("JSONDecodeError") /\ UNCHANGED <<loc, out>>
        ELSE IF ~body.dict
        THEN Raise("AttributeError") /\ UNCHANGED <<loc, out>>
        ELSE /\ out' = out \o (IF "items" \in DOMAIN body.data THEN body.data["items"] ELSE <<>>)
             /\ pc' = "ss_batch"
             /\ loc' = [loc EXCEPT !.i = @ + batch_size]
             /\ UNCHANGED <<stack, exc>>
    /\ UNCHANGED <<mode, now, config, file, tries, call, glog, sent, got, hdrs, response,
                   bookmark, context, reqs, pages, mods, hist, probe, attempt>>

\* the state before a pass of the suppliers stream (it has no replication key)
InitSuppliers ==
    /\ mode = "suppliers"
    /\ pc = "ss"
    /\ InitLocals
    /\ now = 0
    /\ file \in {[kind |-> "missing", data |-> EmptyDict],
                  [kind |-> "json",
                   data |-> Credentials @@ ("token" :> Some("tB"))
                            @@ ("token_expire" :> Some(SafetyMargin + MaxNow))]}
    /\ config = LoadToken(Credentials, file)
    /\ bookmark = None
    /\ context = None

Suppliers ==
    \/ SuppliersStart
    \/ SuppliersIds
    \/ SuppliersBatch
    \/ SuppliersItems

NextSuppliers == Engine \/ Suppliers

SpecSuppliers == InitSuppliers /\ [][NextSuppliers]_vars

----------------------------------------------------------------------------
(* streams.py: PurchaseOrdersStream.get_records (the Find loop on the       *)
(* configured start_date, then one GetWithDetails request per identifier)   *)

\* a mutant: the saved value of the stream, when there is one, is the lower bound
PurchaseStart_from_bookmark ==
    /\ pc = "po"
    /\ LET start_date == Get(config, "start_date")
           end_date == Get(config, "end_date")
       IN  IF ~TruthyStr(start_date) \/ ~TruthyStr(end_date)
           THEN pc' = "done" /\ UNCHANGED loc
           ELSE /\ loc' = [start_date |-> IF bookmark # None THEN bookmark[1] ELSE start_date[1],
                           all_ids |-> <<>>, offset |-> 0, i |-> 0]
                /\ pc' = "po_find"
    /\ UNCHANGED <<mode, stack, now, config, file, tries, exc, call, glog, sent, got, hdrs,
                   response, bookmark, context, out, reqs, pages, mods, hist, probe, attempt,
                   details>>

\* line 583-593: without start_date or end_date the pass ends at once
PurchaseStart ==
    /\ pc = "po"
    /\ LET start_date == Get(config, "start_date")
           end_date == Get(config, "end_date")
       IN  IF ~TruthyStr(start_date) \/ ~TruthyStr(end_date)
           THEN pc' = "done" /\ UNCHANGED loc
           ELSE /\ loc' = [start_date |-> start_date[1], all_ids |-> <<>>, offset |-> 0, i |-> 0]
                /\ pc' = "po_find"
    /\ UNCHANGED <<mode, stack, now, config, file, tries, exc, call, glog, sent, got, hdrs,
                   response, bookmark, context, out, reqs, pages, mods, hist, probe, attempt,
                   details>>

\* line 594-607: the Find request of the page at loc.offset; its lower bound
\* is the configured string as it is
PurchaseFind ==
    /\ pc = "po_find"
    /\ LET c == [method |-> "POST", url |-> "/VenditPublicApi/PurchaseOrders/Find",
                 json |-> [fieldFilters |-> <<[field |-> 204, value |-> loc.start_date,
                                               filterComparison |-> 2]>>,
                           paginationOffset |-> loc.offset,
                           paginationLimit |-> page_size,
                           operator |-> 0],
                 headers |-> EmptyDict]
       IN  /\ BeginRequest(c, "po_page")
           /\ reqs' = Append(reqs, c)
    /\ UNCHANGED <<mode, now, config, file, tries, exc, bookmark, context, loc, out, pages, mods,
                   hist, probe, attempt, details>>

\* line 608-626: the page is read and the loop goes on or ends; without
\* identifiers the pass ends
PurchasePage ==
    /\ pc = "po_page"
    /\ LET body == response.body
           ids == IF "results" \in DOMAIN body.data THEN body.data["results"] ELSE <<>>
           all_ids == IF ids = <<>> THEN loc.all_ids ELSE loc.all_ids \o KeptIds(ids)
       IN  IF ~body.json
           THEN Raise("JSONDecodeError") /\ UNCHANGED <<loc, pages>>
           ELSE IF ~body.dict
           THEN Raise("AttributeError") /\ UNCHANGED <<loc, pages>>
           ELSE /\ pages' = Append(pages, ids)
                /\ UNCHANGED <<stack, exc>>
                /\ IF ids = <<>> \/ Len(ids) < page_size
                   THEN /\ pc' = IF all_ids = <<>> THEN "done" ELSE "po_item"
                        /\ loc' = [loc EXCEPT !.all_ids = all_ids]
                   ELSE /\ pc' = "po_find"
                        /\ loc' = [loc EXCEPT !.all_ids = all_ids, !.offset = @ + page_size]
    /\ UNCHANGED <<mode, now, config, file, tries, call, glog, sent, got, hdrs, response,
                   bookmark, context, out, reqs, mods, hist, probe, attempt, details>>

\* line 628-630: the GetWithDetails request of the identifier at loc.i
PurchaseItem ==
    /\ pc = "po_item"
    /\ IF loc.i >= Len(loc.all_ids)
       THEN /\ pc' = "done"
            /\ UNCHANGED <<stack, call, glog, sent, got, hdrs, response, reqs>>
       ELSE LET c == [method |-> "GET",
                      url |-> "/VenditPublicApi/PurchaseOrders/GetWithDetails/"
                                  \o loc.all_ids[loc.i + 1],
                      json |-> "", headers |-> EmptyDict]
            IN  /\ BeginRequest(c, "po_detail")
                /\ reqs' = Append(reqs, c)
    /\ UNCHANGED <<mode, now, config, file, tries, exc, bookmark, context, loc, out, pages, mods, hist, probe, attempt, details>>

\* line 631-636: the body is yielded if it is truthy, or the identifier is skipped
PurchaseDetail ==
    /\ pc = "po_detail"
    /\ details' = Append(details, response)
    /\ LET data == response.body IN
        IF response.status # 200
        THEN /\ pc' = "po_item"
             /\ loc' = [loc EXCEPT !.i = @ + 1]
             /\ UNCHANGED <<stack, exc, out>>
        ELSE IF ~data.json
        THEN Raise("JSONDecodeError") /\ UNCHANGED <<loc, out>>
        ELSE /\ out' = IF data.data # EmptyDict THEN Append(out, data.data) ELSE out
             /\ pc' = "po_item"
             /\ loc' = [loc EXCEPT !.i = @ + 1]
             /\ UNCHANGED <<stack, exc>>
    /\ UNCHANGED <<mode, now, config, file, tries, call, glog, sent, got, hdrs, response,
                   bookmark, context, reqs, pages, mods, hist, probe, attempt>>

\* the state before a pass of the purchase-orders stream: start_date and
\* end_date configured or not, a value saved by an earlier run or none
InitPurchase ==
    /\ mode = "purchase_orders"
    /\ pc = "po"
    /\ InitLocals
    /\ now = 0
    /\ file \in {[kind |-> "missing", data |-> EmptyDict],
                  [kind |-> "json",
                   data |-> Credentials @@ ("token" :> Some("tB"))
                            @@ ("token_expire" :> Some(SafetyMargin + MaxNow))]}
    /\ \E sd \in OptDateStrings \cup {<<"absent">>},
          ed \in {None, Some(""), Some("2025-07-04T12:30:45")} :
          config = Update(LoadToken(Credentials, file),
                          (IF sd = <<"absent">> THEN EmptyDict ELSE ("start_date" :> sd))
                              @@ ("end_date" :> ed))
    /\ bookmark \in {None, Some("2024-03-01T00:00:00")}
    /\ context \in {None, Some("replication_key_value" :> Some("2024-03-01T00:00:00"))}

NextPurchase ==
    \/ Engine
    \/ PurchaseStart
    \/ PurchaseFind
    \/ PurchasePage
    \/ PurchaseItem
    \/ PurchaseDetail

SpecPurchase == InitPurchase /\ [][NextPurchase]_vars

----------------------------------------------------------------------------
(* The unix-cursor streams: BaseOptiplyStream.get_records (the purchase     *)
(* orders) and SupplierProductsStream.get_records.                          *)
(*                                                                          *)
(* An instant in milliseconds is the pair [s, ms] of its whole seconds and  *)
(* the milliseconds left over: 1640995200000 is [s |-> 1640995200, ms |-> 0]. *)
(* The clock of the model advances in whole seconds.                        *)

UnixMs(s, ms) == [s |-> s, ms |-> ms]
unix_lt(a, b) == a.s < b.s \/ (a.s = b.s /\ a.ms < b.ms)
unix_le(a, b) == a = b \/ unix_lt(a, b)

\* BaseOptiplyStream.get_starting_unix
get_starting_unix == UnixMs(StartingSeconds, 0)

\* BaseOptiplyStream.get_current_unix, with the clock at second t
get_current_unix(t) == UnixMs(t, 0)

\* f"{unix_ms}"
Pad3(n) == IF n < 10 THEN "00" \o ToString(n)
           ELSE IF n < 100 THEN "0" \o ToString(n) ELSE ToString(n)
format_unix(u) == IF u.s = 0 THEN ToString(u.ms) ELSE ToString(u.s) \o Pad3(u.ms)

\* get_url of the two streams (line 664 and line 766)
FromDatePath(stream) ==
    IF stream = "supplier_products"
    THEN "/Optiply/GetProductSuppliersFromDate/"
    ELSE "/Optiply/GetProductPurchaseOrdersFromDate/"
get_url(stream, u) == FromDatePath(stream) \o format_unix(u)

\* the context objects a first pass can be handed
SavedValues == {UnixMs(0, 0), UnixMs(StartingSeconds + 1, 250)}
ContextInits ==
    {None, Some(EmptyDict), Some("replication_key_value" :> None)}
    \cup {Some("replication_key_value" :> Some(x)) : x \in SavedValues}

\* The server: one item per instant of modification, its id the second of
\* the instant counted from StartingSeconds.  The items come in three
\* shapes, by their id: with a null purchase price, with a unix_timestamp
\* of its own (the instant of its modification) and a purchase price
\* object, bare.
PurchasePrice == ("productPurchasePriceId" :> Some(7)) @@ ("purchasePriceEx" :> Some(3))
Item(m) ==
    LET id == m.s - StartingSeconds IN
    CASE id % 3 = 0 -> ("id" :> Some(id)) @@ ("productPurchasePrice" :> None)
      [] id % 3 = 1 -> ("id" :> Some(id)) @@ ("unix_timestamp" :> Some(m))
                       @@ ("productPurchasePrice" :> Some(PurchasePrice))
      [] OTHER -> ("id" :> Some(id))

\* the instants of modification at or after the instant from, oldest first
ModifiedFrom(from) ==
    LET Hit(i) == /\ get_current_unix(StartingSeconds + i - 1) \in mods
                  /\ unix_le(from, get_current_unix(StartingSeconds + i - 1))
        hits == SelectSeq([i \in 1..(MaxClock + 1) |-> i], Hit)
    IN  [k \in 1..Len(hits) |-> get_current_unix(StartingSeconds + hits[k] - 1)]

\* what the FromDate endpoint can answer to a request for the items modified
\* from the instant from on
TimestampAnswers(from) ==
    {[status |-> 200,
      body |-> JsonDict("items" :> [k \in 1..Len(ModifiedFrom(from)) |->
                                        Item(ModifiedFrom(from)[k])])],
     [status |-> 200, body |-> JsonDict(EmptyDict)],
     [status |-> 200, body |-> NonJson],
     [status |-> 200, body |-> JsonList],
     [status |-> 500, body |-> NonJson],
     [status |-> 401, body |-> JsonDict(ErrorDict)]}

\* a mutant: a saved value that is falsy counts as no saved value
StartingUnix_falsy(ctx) ==
    LET state == IF ctx = None THEN EmptyDict ELSE ctx[1]
        last_synced_unix == Get(state, "replication_key_value")
    IN  IF last_synced_unix = None \/ last_synced_unix[1] = UnixMs(0, 0)
        THEN get_starting_unix ELSE last_synced_unix[1]

\* line 169-177 (667-675): state = context or {}; the saved value unless it is None
StartingUnix(ctx) ==
    LET state == IF ctx = None THEN EmptyDict ELSE ctx[1]
        last_synced_unix == Get(state, "replication_key_value")
    IN  IF last_synced_unix = None THEN get_starting_unix ELSE last_synced_unix[1]

\* line 169-183 (667-680): the lower bound and the URL, then the headers of
\* the request are asked of the authenticator
UnixStart ==
    /\ pc = "ux"
    /\ loc' = [last_synced_unix |-> StartingUnix(context),
               url |-> get_url(mode, StartingUnix(context)),
               items |-> <<>>, k |-> 1]
    /\ hist' = [hist EXCEPT !.n = @ + 1,
                             !.first_lower = IF hist.n = 0 THEN Some(StartingUnix(context)) ELSE @,
                             !.began = Some(get_current_unix(now)),
                             !.fetched = None]
    /\ glog' = <<>>
    /\ CallTo("ah", "ux_get")
    /\ UNCHANGED <<mode, now, config, file, tries, exc, call, sent, got, hdrs, response,
                   bookmark, context, out, reqs, pages, mods, probe, attempt, details>>

\* a mutant: a 401 is answered by a refresh and the request is sent again
UnixGet_retrying_401 ==
    /\ pc = "ux_get"
    /\ \E ans \in TimestampAnswers(loc.last_synced_unix) :
        /\ response' = ans
        /\ reqs' = Append(reqs, [method |-> "GET", url |-> loc.url, headers |-> hdrs])
        /\ IF ans.status = 401
           THEN /\ CallTo("uat", "ux_get")
                /\ UNCHANGED <<exc, loc, hist>>
           ELSE IF ans.status # 200
           THEN /\ pc' = "done"
                /\ hist' = [hist EXCEPT !.fetched = Some(get_current_unix(now)),
                                         !.complete = FALSE]
                /\ UNCHANGED <<stack, exc, loc>>
           ELSE IF ~ans.body.json
           THEN /\ Raise("JSONDecodeError")
                /\ hist' = [hist EXCEPT !.fetched = Some(get_current_unix(now)),
                                         !.complete = FALSE]
                /\ UNCHANGED loc
           ELSE IF ~ans.body.dict
           THEN /\ Raise("AttributeError")
                /\ hist' = [hist EXCEPT !.fetched = Some(get_current_unix(now)),
                                         !.complete = FALSE]
                /\ UNCHANGED loc
           ELSE /\ loc' = [loc EXCEPT !.items = IF "items" \in DOMAIN ans.body.data
                                                THEN ans.body.data["items"] ELSE <<>>,
                                      !.k = 1]
                /\ hist' = [hist EXCEPT !.fetched = Some(get_current_unix(now)),
                                         !.delivered =
                                            IF "items" \in DOMAIN ans.body.data
                                            THEN @ \cup {ModifiedFrom(loc.last_synced_unix)[k] :
                                                    k \in 1..Len(ModifiedFrom(loc.last_synced_unix))}
                                            ELSE @,
                                         !.complete = @ /\ "items" \in DOMAIN ans.body.data]
                /\ pc' = "ux_next"
                /\ UNCHANGED <<stack, exc>>
    /\ UNCHANGED <<mode, now, config, file, tries, call, glog, sent, got, hdrs,
                   bookmark, context, out, pages, mods, probe, attempt, details>>

\* line 183-191 (680-688): the request, outside the gateway; any status but
\* 200 ends the pass
UnixGet ==
    /\ pc = "ux_get"
    /\ \E ans \in TimestampAnswers(loc.last_synced_unix) :
        /\ response' = ans
        /\ reqs' = Append(reqs, [method |-> "GET", url |-> loc.url, headers |-> hdrs])
        /\ IF ans.status # 200
           THEN /\ pc' = "done"
                /\ hist' = [hist EXCEPT !.fetched = Some(get_current_unix(now)),
                                         !.complete = FALSE]
                /\ UNCHANGED <<stack, exc, loc>>
           ELSE IF ~ans.body.json
           THEN /\ Raise("JSONDecodeError")
                /\ hist' = [hist EXCEPT !.fetched = Some(get_current_unix(now)),
                                         !.complete = FALSE]
                /\ UNCHANGED loc
           ELSE IF ~ans.body.dict
           THEN /\ Raise("AttributeError")
                /\ hist' = [hist EXCEPT !.fetched = Some(get_current_unix(now)),
                                         !.complete = FALSE]
                /\ UNCHANGED loc
           ELSE /\ loc' = [loc EXCEPT !.items = IF "items" \in DOMAIN ans.body.data
                                                THEN ans.body.data["items"] ELSE <<>>,
                                      !.k = 1]
                /\ hist' = [hist EXCEPT !.fetched = Some(get_current_unix(now)),
                                         !.delivered =
                                            IF "items" \in DOMAIN ans.body.data
                                            THEN @ \cup {ModifiedFrom(loc.last_synced_unix)[k] :
                                                    k \in 1..Len(ModifiedFrom(loc.last_synced_unix))}
                                            ELSE @,
                                         !.complete = @ /\ "items" \in DOMAIN ans.body.data]
                /\ pc' = "ux_next"
                /\ UNCHANGED <<stack, exc>>
    /\ UNCHANGED <<mode, now, config, file, tries, call, glog, sent, got, hdrs,
                   bookmark, context, out, pages, mods, probe, attempt, details>>

\* line 687-692: the purchase price of the item, flattened into the record
Flattened(item) ==
    LET v == Get(item, "productPurchasePrice")
        ppp == IF v = None \/ v[1] = EmptyDict THEN EmptyDict ELSE v[1]
    IN  Update(item, ("productPurchasePriceId" :> Get(ppp, "productPurchasePriceId"))
                     @@ ("purchasePriceEx" :> Get(ppp, "purchasePriceEx")))

\* a mutant: the record keeps the unix_timestamp the item came with
Record_keeping_own(stream, item, last_synced_unix) ==
    Update(("unix_timestamp" :> Some(last_synced_unix)),
           IF stream = "supplier_products" THEN Flattened(item) ELSE item)

\* line 194-197 (690-695): record = dict(item); record["unix_timestamp"] = last_synced_unix
Record(stream, item, last_synced_unix) ==
    Update(IF stream = "supplier_products" THEN Flattened(item) ELSE item,
           ("unix_timestamp" :> Some(last_synced_unix)))

\* a mutant: the cursor is stored with every record yielded
UnixYield_saving_each ==
    /\ pc = "ux_next"
    /\ loc.k <= Len(loc.items)
    /\ out' = Append(out, Record(mode, loc.items[loc.k], loc.last_synced_unix))
    /\ loc' = [loc EXCEPT !.k = @ + 1]
    /\ context' = IF context # None
                  THEN Some(Update(context[1],
                                   ("replication_key_value" :> Some(get_current_unix(now)))))
                  ELSE context
    /\ UNCHANGED <<mode, pc, stack, now, config, file, tries, exc, call, glog, sent, got, hdrs,
                   response, bookmark, reqs, pages, mods, hist, probe, attempt, details>>

\* line 193-197 (689-695): the next item is stamped and yielded
UnixYield ==
    /\ pc = "ux_next"
    /\ loc.k <= Len(loc.items)
    /\ out' = Append(out, Record(mode, loc.items[loc.k], loc.last_synced_unix))
    /\ loc' = [loc EXCEPT !.k = @ + 1]
    /\ UNCHANGED <<mode, pc, stack, now, config, file, tries, exc, call, glog, sent, got, hdrs,
                   response, bookmark, context, reqs, pages, mods, hist, probe, attempt, details>>

\* line 199-205 (699-705): after the last item the clock is read and the
\* reading is stored in the context object, if there is one
UnixSave ==
    /\ pc = "ux_next"
    /\ loc.k > Len(loc.items)
    /\ context' = IF context # None
                  THEN Some(Update(context[1],
                                   ("replication_key_value" :> Some(get_current_unix(now)))))
                  ELSE context
    /\ hist' = [hist EXCEPT !.persisted = IF context # None
                                           THEN Some(get_current_unix(now)) ELSE @]
    /\ pc' = "done"
    /\ UNCHANGED <<mode, stack, now, config, file, tries, exc, call, glog, sent, got, hdrs,
                   response, bookmark, loc, out, reqs, pages, mods, probe, attempt, details>>

\* the consumer stops iterating: the generator, suspended at its yield, is
\* closed and nothing after the yield runs
UnixAbandon ==
    /\ pc = "ux_next"
    /\ loc.k >= 2
    /\ pc' = "closed"
    /\ hist' = [hist EXCEPT !.complete = FALSE]
    /\ UNCHANGED <<mode, stack, now, config, file, tries, exc, call, glog, sent, got, hdrs,
                   response, bookmark, context, loc, out, reqs, pages, mods, probe, attempt, details>>

\* the next pass of the stream, on the same context object
UnixRun ==
    /\ mode \in UnixStreams
    /\ pc \in {"done", "closed"}
    /\ hist.n < MaxRuns
    /\ pc' = "ux"
    /\ out' = <<>>
    /\ reqs' = <<>>
    /\ UNCHANGED <<mode, stack, now, config, file, tries, exc, call, glog, sent, got, hdrs,
                   response, bookmark, context, loc, pages, mods, hist, probe, attempt, details>>

\* the server's data changes: an item is modified at the present instant
Modify ==
    /\ mode \in UnixStreams
    /\ pc # "raised"
    /\ get_current_unix(now) \notin mods
    /\ mods' = mods \cup {get_current_unix(now)}
    /\ UNCHANGED <<mode, pc, stack, now, config, file, tries, exc, call, glog, sent, got, hdrs,
                   response, bookmark, context, loc, out, reqs, pages, hist, probe, attempt, details>>

\* the state before the first pass of a unix-cursor stream
InitUnix ==
    /\ mode \in UnixStreams
    /\ pc = "ux"
    /\ InitLocals
    /\ now = StartingSeconds
    /\ file \in {[kind |-> "missing", data |-> EmptyDict],
                  [kind |-> "json",
                   data |-> Credentials @@ ("token" :> Some("tB"))
                            @@ ("token_expire" :> Some(FarExpire(mode)))]}
    /\ config = LoadToken(Credentials, file)
    /\ bookmark = None
    /\ context \in ContextInits

Unix ==
    \/ UnixStart
    \/ UnixGet
    \/ UnixYield
    \/ UnixSave
    \/ UnixAbandon
    \/ UnixRun

NextUnix == Authenticator \/ Unix \/ Tick \/ Modify

SpecUnix == InitUnix /\ [][NextUnix]_vars

----------------------------------------------------------------------------
(* Drivers of the functions: the inputs are drawn by Init, one step         *)
(* evaluates the function and keeps what it returned.                       *)

\* the instants is_token_valid is evaluated at
ProbeNows == 0..MaxNow \cup {SafetyMargin + k : k \in 0..MaxNow}
ProbeTokens == {None, Some("")} \cup {Some(tk) : tk \in Tokens}
ProbeExpires == {None, Some(1)} \cup {Some(e) : e \in ExpireChoices}

InitValid ==
    /\ mode = "valid"
    /\ pc = "idle"
    /\ InitLocals
    /\ now \in ProbeNows
    /\ file = [kind |-> "missing", data |-> EmptyDict]
    /\ \E tk \in ProbeTokens, e \in ProbeExpires :
          config = Update(Credentials, ("token" :> tk) @@ ("token_expire" :> e))
    /\ bookmark = None
    /\ context = None

ValidProbe ==
    /\ mode = "valid"
    /\ pc = "idle"
    /\ probe' = Some(is_token_valid(config, now))
    /\ pc' = "done"
    /\ UNCHANGED <<mode, stack, now, config, file, tries, exc, call, glog, sent, got, hdrs,
                   response, bookmark, context, loc, out, reqs, pages, mods, hist, attempt, details>>

InitStart ==
    /\ mode = "start"
    /\ pc = "idle"
    /\ InitLocals
    /\ now = 0
    /\ file = [kind |-> "missing", data |-> EmptyDict]
    /\ \E sd \in OptDateStrings \cup {<<"absent">>} :
          config = IF sd = <<"absent">> THEN Credentials
                   ELSE Update(Credentials, ("start_date" :> sd))
    /\ bookmark \in OptDateStrings
    /\ context = None

StartProbe ==
    /\ mode = "start"
    /\ pc = "idle"
    /\ LET r == get_starting_time(config, bookmark) IN
        IF r = None
        THEN Raise("ValueError") /\ UNCHANGED probe
        ELSE probe' = r /\ pc' = "done" /\ UNCHANGED <<stack, exc>>
    /\ UNCHANGED <<mode, now, config, file, tries, call, glog, sent, got, hdrs,
                   response, bookmark, context, loc, out, reqs, pages, mods, hist, attempt, details>>

\* the token files read_token is evaluated on: those of FileInits, and a
\* file whose content is JSON but no object
ReadFiles == FileInits \cup {[kind |-> "json_list", data |-> EmptyDict]}

InitRead ==
    /\ mode = "read"
    /\ pc = "idle"
    /\ InitLocals
    /\ now = 0
    /\ file \in ReadFiles
    /\ config = Credentials
    /\ bookmark = None
    /\ context = None

\* a mutant: the JSONDecodeError of a malformed file is not caught
ReadProbe_raising_on_malformed ==
    /\ mode = "read"
    /\ pc = "idle"
    /\ IF file.kind \in {"json_list", "malformed"}
       THEN Raise("AttributeError") /\ UNCHANGED probe
       ELSE probe' = Some(read_token(file)) /\ pc' = "done" /\ UNCHANGED <<stack, exc>>
    /\ UNCHANGED <<mode, now, config, file, tries, call, glog, sent, got, hdrs,
                   response, bookmark, context, loc, out, reqs, pages, mods, hist, attempt, details>>

\* auth.py:87-92 TokenStorage.read_token: config.get on what _read_file
\* returns, which raises AttributeError when that is no dict
ReadProbe ==
    /\ mode = "read"
    /\ pc = "idle"
    /\ IF file.kind = "json_list"
       THEN Raise("AttributeError") /\ UNCHANGED probe
       ELSE probe' = Some(read_token(file)) /\ pc' = "done" /\ UNCHANGED <<stack, exc>>
    /\ UNCHANGED <<mode, now, config, file, tries, call, glog, sent, got, hdrs,
                   response, bookmark, context, loc, out, reqs, pages, mods, hist, attempt, details>>

\* the config a stream is constructed on: the tap's config, shared by the
\* streams, with or without a token in it
InitConstruct ==
    /\ mode = "construct"
    /\ pc = "idle"
    /\ InitLocals
    /\ now \in 0..MaxNow
    /\ file \in ReadFiles
    /\ \/ config = Credentials
       \/ \E tk \in Tokens, e \in ExpireChoices :
             config = Update(Credentials, ("token" :> Some(tk)) @@ ("token_expire" :> Some(e)))
    /\ bookmark = None
    /\ context = None

\* auth.py:153-176 VenditAuthenticator.__init__ (called by client.py:35-42):
\* read_token returns a dict of two keys, which is truthy whatever they hold,
\* so the update is always made; probe keeps the config as it was
ConstructProbe ==
    /\ mode = "construct"
    /\ pc = "idle"
    /\ IF file.kind = "json_list"
       THEN Raise("AttributeError") /\ UNCHANGED <<probe, config>>
       ELSE /\ probe' = Some(config)
            /\ config' = LoadToken(config, file)
            /\ pc' = "done"
            /\ UNCHANGED <<stack, exc>>
    /\ UNCHANGED <<mode, now, file, tries, call, glog, sent, got, hdrs,
                   response, bookmark, context, loc, out, reqs, pages, mods, hist, attempt, details>>

InitProbe == InitValid \/ InitStart \/ InitRead \/ InitConstruct
NextProbe == ValidProbe \/ StartProbe \/ ReadProbe \/ ConstructProbe
SpecProbe == InitProbe /\ [][NextProbe]_vars

----------------------------------------------------------------------------
(* Properties of the gateway *)

\* the places of the data requests in the history of the running call
SendPlaces == {i \in 1..Len(glog) : glog[i] = "send"}
FirstSend == CHOOSE i \in SendPlaces : \A j \in SendPlaces : i <= j
LastSend == CHOOSE i \in SendPlaces : \A j \in SendPlaces : j <= i

\* the events between the first and the last data request
BetweenSends == SubSeq(glog, FirstSend + 1, LastSend - 1)
\* the events before the first data request
BeforeFirstSend == SubSeq(glog, 1, FirstSend - 1)

Occurrences(seq, ev) == Cardinality({i \in 1..Len(seq) : seq[i] = ev})

SameRequest(a, b) == a.method = b.method /\ a.url = b.url /\ a.json = b.json

C2_AsStated ==
    RequestReturned /\ Len(got) = 2 /\ got[1].status = 401 /\ got[2].status = 200
        => Occurrences(BetweenSends, "refresh") = 1

\* C2 amended: 401 then 200: update_access_token is invoked once after the
\* 401, and once more by auth_headers exactly when the token the first
\* refresh stored fails is_token_valid as the headers are read (expiry 0 or
\* less than 120 s away): once or twice, never more.
C2_RefreshBetweenRequests ==
    RequestReturned /\ Len(got) = 2 /\ got[1].status = 401 /\ got[2].status = 200
        => \/ BetweenSends = <<"refresh", "headers:valid">>
           \/ BetweenSends = <<"refresh", "headers:invalid", "refresh">>

\* 401 then 200 with a refreshed token that is not valid: two refreshes
C2_TwoRefreshes ==
    /\ RequestReturned
    /\ Len(got) = 2 /\ got[1].status = 401 /\ got[2].status = 200
    /\ Occurrences(BetweenSends, "refresh") = 2
    /\ ~is_token_valid(config, now)

\* the first data request of the running call is about to be sent
FirstAttemptReady == mode = "gateway" /\ pc = "rq_send1"

\* the token of the config passes is_token_valid at some instant of the run
\* up to now
PassesCheck == \E t \in 0..now : is_token_valid(config, t)

\* C22 as stated: before the first data request of a call the validity is
\* checked and a failed check is followed by a refresh; the request carries
\* a token that passes the validity check, and no refresh is made when the
\* checks find the token valid.
C22_AsStated ==
    FirstAttemptReady =>
        /\ glog[1] \in {"check:valid", "check:invalid"}
        /\ glog[1] = "check:invalid" => glog[2] = "refresh"
        /\ hdrs["Token"] = Get(config, "token")
        /\ PassesCheck
        /\ glog = <<"check:valid", "headers:valid">> \/ Occurrences(glog, "refresh") >= 1

\* C22: before the first data request of a call the validity is checked
\* twice, by _request and by auth_headers, and each failed check is followed
\* at once by a refresh; the request carries the token of the config, which
\* passed the last check or was stored by the refresh after the last failed
\* check (that token is not checked again and may itself fail the check);
\* no refresh is made when both checks find the token valid.
C22_CheckedBeforeRequest ==
    FirstAttemptReady =>
        /\ glog \in {<<"check:valid", "headers:valid">>,
                     <<"check:valid", "headers:invalid", "refresh">>,
                     <<"check:invalid", "refresh", "headers:valid">>,
                     <<"check:invalid", "refresh", "headers:invalid", "refresh">>}
        /\ hdrs["Token"] = Get(config, "token")
        /\ tries = 0
        /\ glog[Len(glog)] = "headers:valid" => PassesCheck

\* C22 witness: both checks failed, both refreshes stored a token without an
\* expiry, and the request went out with that token
C22_SentAfterTwoRefreshes ==
    /\ mode = "gateway"
    /\ glog = <<"check:invalid", "refresh", "headers:invalid", "refresh", "send">>
    /\ Get(config, "token_expire") = Some(0)
    /\ sent[1].headers["Token"] = Get(config, "token")
    /\ ~PassesCheck

\* C20: a first response with a status that is neither 2xx nor 401 is the
\* result of the call: one data request was sent, update_access_token was not
\* entered after it, no exception left the call, and the response is handed
\* to the caller.
C20_OtherStatusReturned ==
    (mode = "gateway" /\ Len(got) >= 1 /\ got[1].status \notin {200, 401}) =>
        /\ Len(sent) = 1 /\ Len(got) = 1
        /\ pc \in {"rq_ret", "idle"}
        /\ exc = None
        /\ response = got[1]
        /\ Occurrences(SubSeq(glog, FirstSend + 1, Len(glog)), "refresh") = 0

\* C20 witness: the call has returned a 500 after one data request
C20_Returned500 ==
    /\ mode = "gateway"
    /\ RequestReturned /\ pc = "idle"
    /\ Len(sent) = 1
    /\ response.status = 500
    /\ Occurrences(glog, "send") = 1

----------------------------------------------------------------------------
(* Properties of update_access_token *)

\* the last attempt of the call that runs or ran last
LastAttempt == attempt[1]
TransportFailed(ans) == ans.transport # "ok"
NotJson(ans) == ans.transport = "ok" /\ ~ans.body.json
NoTokenField(ans) ==
    ans.transport = "ok" /\ ans.body.json
        /\ (~ans.body.dict \/ "token" \notin DOMAIN ans.body.data)

\* C11: a call of update_access_token makes at most max_tries = 5 attempts: an
\* attempt is made only after fewer than 5 failures; a success ends the call;
\* after a failure of any of the three kinds, with fewer than 5 failures so
\* far, the call goes on to its next attempt; the call raises if and only if
\* 5 attempts failed.
C11_FiveAttempts ==
    mode = "auth" =>
        /\ tries <= max_tries
        /\ pc = "uat_try" => tries < max_tries
        /\ attempt # None /\ LastAttempt.error = "" => pc = "idle" /\ exc = None
        /\ attempt # None /\ LastAttempt.error # "" /\ tries < max_tries => pc = "uat_try"
        /\ pc = "raised" <=> tries = max_tries
        /\ pc = "raised" => attempt # None /\ exc = Some(LastAttempt.error)

\* C11 witness: the fifth attempt met a body that is no JSON and the call raised
C11_FifthFailureRaises ==
    /\ mode = "auth"
    /\ pc = "raised"
    /\ tries = 5
    /\ NotJson(LastAttempt.answer)
    /\ exc = Some("EmptyResponseError")

C13_FileMerged ==
    [][(pc = "uat_try" /\ attempt' # None /\ attempt'[1].written) =>
          /\ file'.kind = "json"
          /\ Get(file'.data, "token") = Some(attempt'[1].answer.body.data["token"])
          /\ Get(file'.data, "token") = Get(config', "token")
          /\ Get(file'.data, "token_expire") = Get(config', "token_expire")
          /\ DOMAIN file'.data = DOMAIN read_file(file) \cup {"token", "token_expire"}
          /\ \A k \in DOMAIN read_file(file) \ {"token", "token_expire"} :
                file'.data[k] = read_file(file)[k]]_vars

\* C13 witness: the file held the credentials and an older token; it now
\* holds the credentials and the token of the attempt
C13_CredentialsKept ==
    /\ mode = "auth"
    /\ attempt # None
    /\ LastAttempt.written
    /\ Get(file.data, "username") = Some("u")
    /\ Get(file.data, "token") = Some("tA")
    /\ Get(file.data, "token_expire") = Some(0)

----------------------------------------------------------------------------
(* Properties of auth_headers *)

\* the token and the expiry of a config
TokenOf(cfg) == [k \in {"token", "token_expire"} |-> Get(cfg, k)]

\* a read of auth_headers has returned its headers
HeadersReturned == mode = "headers" /\ pc = "idle" /\ glog # <<>>

\* C21: a read of auth_headers that finds the token not valid enters
\* update_access_token once and builds the headers after it has returned:
\* the Token header is the token of the answer that refresh obtained; a read
\* that finds the token valid enters no refresh and returns the token of the
\* config; the headers have the keys Token, ApiKey and Content-Type, no other.
C21_HeadersAfterRefresh ==
    /\ (mode = "headers" /\ pc = "ah_build" /\ glog # <<"headers:valid">>) =>
          /\ glog = <<"headers:invalid", "refresh">>
          /\ attempt # None /\ LastAttempt.error = ""
    /\ HeadersReturned =>
          /\ DOMAIN hdrs = {"Token", "ApiKey", "Content-Type"}
          /\ glog \in {<<"headers:valid">>, <<"headers:invalid", "refresh">>}
          /\ glog = <<"headers:invalid", "refresh">> =>
                /\ attempt # None /\ LastAttempt.error = ""
                /\ hdrs["Token"] = Some(LastAttempt.answer.body.data["token"])
          /\ glog = <<"headers:valid">> =>
                /\ attempt = None
                /\ is_token_valid(config, now)
                /\ hdrs["Token"] = Get(config, "token")

\* C21 witness: the token was not valid, the refresh obtained tB without an
\* expiry, and the headers carry tB
C21_RefreshedTokenReturned ==
    /\ HeadersReturned
    /\ glog = <<"headers:invalid", "refresh">>
    /\ LastAttempt.answer.body.data = ("token" :> "tB")
    /\ hdrs["Token"] = Some("tB")
    /\ hdrs["ApiKey"] = Some("key")

C23_WriteFailureSwallowed ==
    [][/\ (pc = "uat_try" /\ attempt' # None /\ attempt'[1].error = "" /\ ~attempt'[1].written) =>
             /\ exc' = None
             /\ pc' = Head(stack) /\ stack' = Tail(stack)
             /\ file' = file
             /\ TokenOf(config') = TokenInfo(attempt'[1].answer)
       /\ (pc = "ah_build" /\ attempt # None /\ ~attempt[1].written) =>
             /\ hdrs'["Token"] = Some(attempt[1].answer.body.data["token"])
             /\ pc' = "idle"]_vars

\* C23 witness: the token file is still missing after a refresh obtained tA,
\* which the config holds and the headers carry
C23_MissingFileNewToken ==
    /\ HeadersReturned
    /\ attempt # None /\ LastAttempt.error = "" /\ ~LastAttempt.written
    /\ file.kind = "missing"
    /\ Get(config, "token") = Some("tA")
    /\ hdrs["Token"] = Some("tA")

\* the token the refresh that succeeded last obtained, None if none did
LastRefresh ==
    IF attempt # None /\ LastAttempt.error = "" THEN Some(TokenInfo(LastAttempt.answer))
    ELSE IF loc # EmptyDict /\ loc.last # None THEN Some(loc.last[1].info)
    ELSE None

\* the token state is the one the last refresh obtained, whichever stream
\* made it; the stream that reads its headers after another stream's refresh
\* finds the token valid or not by that token and expiry, and when valid
\* sends that token
SharedToken ==
    /\ LastRefresh # None => TokenOf(config) = LastRefresh[1]
    /\ (HeadersReturned /\ loc.last # None /\ loc.last[1].stream # loc.stream) =>
          /\ glog = <<"headers:valid">> <=> is_token_valid(loc.last[1].info, now)
          /\ glog = <<"headers:valid">> => hdrs["Token"] = loc.last[1].info["token"]

----------------------------------------------------------------------------
(* Properties of a refresh that fails *)

\* an attempt of update_access_token has just failed
AttemptFailed == pc = "uat_try" /\ attempt' # None /\ attempt'[1].error # ""

\* a failed attempt touches neither the config nor the token file
FailureKeepsState ==
    AttemptFailed =>
        /\ attempt'[1].error \in {"EmptyResponseError", "TokenRefreshError"}
        /\ config' = config
        /\ file' = file

\* C30: an attempt that fails, with any of the three kinds of failure,
\* changes neither the token and expiry of the config nor the token file;
\* until an attempt succeeds, and when the call raises after max_tries
\* failures, they are what they were when update_access_token was called.
C30_FailedRefreshKeepsState ==
    /\ [](mode = "auth" /\ pc \in {"uat", "uat_try", "raised"} =>
             config = loc.config /\ file = loc.file)
    /\ [][FailureKeepsState]_vars

\* C30 witness: the second call, after one that obtained a token, failed
\* five times and raised; config and file hold the token of the first call
C30_RaisedWithEarlierToken ==
    /\ mode = "auth" /\ pc = "raised"
    /\ tries = max_tries
    /\ TransportFailed(LastAttempt.answer)
    /\ TokenOf(config).token # None
    /\ config = loc.config /\ file = loc.file
    /\ file.kind = "json" /\ read_token(file) = TokenOf(config)
    /\ file \notin FileInits

----------------------------------------------------------------------------
(* Properties of the construction of an authenticator *)

\* what the token file holds under key, null when the file is missing, is
\* no JSON or lacks the key
Stored(key) ==
    IF file.kind = "json" /\ key \in DOMAIN file.data THEN file.data[key] ELSE None

\* an authenticator has been constructed
Constructed == mode = "construct" /\ pc = "done"

\* C34: the construction of an authenticator sets the token and the expiry
\* of the shared config to what the token file holds, null for each when the
\* file is missing, is no JSON or lacks the key, and touches no other key;
\* with a null token or expiry the validity check fails, whatever the config
\* held before.
C34_ConstructionLoadsFile ==
    Constructed =>
        /\ Get(config, "token") = Stored("token")
        /\ Get(config, "token_expire") = Stored("token_expire")
        /\ \A k \in DOMAIN probe[1] \ {"token", "token_expire"} :
              k \in DOMAIN config /\ config[k] = probe[1][k]
        /\ (Stored("token") = None \/ Stored("token_expire") = None)
              => ~is_token_valid(config, now)

\* C34 witness: the config held a valid token, the file is missing: after
\* the construction token and expiry are null and the check fails
C34_ValidTokenLost ==
    /\ Constructed
    /\ is_token_valid(probe[1], now)
    /\ file.kind = "missing"
    /\ Get(config, "token") = None /\ Get(config, "token_expire") = None
    /\ ~is_token_valid(config, now)

----------------------------------------------------------------------------
(* Properties of a token without expiry *)

\* an attempt of update_access_token has just succeeded on an answer that
\* has a token and no expire field
RefreshedWithoutExpire ==
    /\ pc = "uat_try" /\ pc' # "uat_try" /\ exc' = None
    /\ attempt' # None /\ attempt'[1].error = ""
    /\ "expire" \notin DOMAIN attempt'[1].answer.body.data

\* the validity check of the gateway or of auth_headers is made while the
\* config holds expiry 0
CheckedAtZero ==
    /\ pc \in {"rq", "ah"} /\ pc' # pc
    /\ Get(config, "token_expire") = Some(0)

ZeroExpiryRefreshes ==
    /\ RefreshedWithoutExpire =>
          /\ Get(config', "token") = Some(attempt'[1].answer.body.data["token"])
          /\ Get(config', "token_expire") = Some(0)
          /\ ~is_token_valid(config', now')
    /\ CheckedAtZero => pc' = "uat"

\* C35: a refresh that succeeds on an answer with a token and no expire
\* stores expiry 0, and the token is not valid after it; as long as the
\* config holds expiry 0 the token is never valid, and every validity check,
\* that of a gateway request and that of a read of auth_headers, enters
\* update_access_token.
C35_NoExpireAlwaysRefreshes ==
    /\ [](mode = "gateway" /\ Get(config, "token_expire") = Some(0) =>
             ~is_token_valid(config, now))
    /\ [][ZeroExpiryRefreshes]_vars

\* C35 witness: the check of a gateway request refreshed on an answer
\* without expire; the read of auth_headers that follows found the token
\* not valid and has entered update_access_token again
C35_SecondRefreshAfterNoExpire ==
    /\ mode = "gateway" /\ pc = "uat"
    /\ glog = <<"check:invalid", "refresh", "headers:invalid">>
    /\ attempt # None /\ attempt[1].error = ""
    /\ "expire" \notin DOMAIN attempt[1].answer.body.data
    /\ Get(config, "token") = Some(attempt[1].answer.body.data["token"])
    /\ Get(config, "token_expire") = Some(0)

----------------------------------------------------------------------------
(* Properties of the Paginated Finder *)

IsFind(c) == c.url = "/VenditPublicApi/Products/Find"
IsGetMultiple(c) == c.url = "/VenditPublicApi/Products/GetMultiple"

\* the Find requests the pass issued through the gateway, in order
FindReqs == SelectSeq(reqs, IsFind)

\* the pass is beyond its Find loop
DetailPhase ==
    \/ pc \in {"ps_ids", "ps_batch", "ps_items", "done"}
    \/ \E k \in 1..Len(stack) : stack[k] = "ps_items"

\* the sizes of the pages received
PageSizes == [k \in 1..Len(pages) |-> Len(pages[k])]

\* C3: the Find loop stops exactly at the first page with fewer than 100
\* results (zero included): every page before the last one received is
\* full, no Find request follows a short page, and the loop is left only
\* after a short page; so the number of Find requests is the least k with
\* s_k < 100.  (A Find request is one call of the gateway by the loop.)
C3_StopsAtFirstShortPage ==
    mode = "products" =>
        /\ \A k \in 1..(Len(pages) - 1) : PageSizes[k] >= 100
        /\ Len(FindReqs) \in {Len(pages), Len(pages) + 1}
        /\ Len(pages) >= 1 /\ PageSizes[Len(pages)] < 100 => Len(FindReqs) = Len(pages)
        /\ DetailPhase => /\ Len(pages) >= 1
                          /\ PageSizes[Len(pages)] < 100
                          /\ Len(FindReqs) = Len(pages)
        /\ Len(pages) >= 1 /\ PageSizes[Len(pages)] >= 100 /\ pc # "raised"
              => pc = "ps_find" \/ Len(FindReqs) = Len(pages) + 1

\* pages of 100, 100 and ShortLen results: 3 requests, all identifiers kept
C3_ThreePages ==
    /\ mode = "products" /\ pc = "done"
    /\ Len(pages) = 3
    /\ PageSizes[1] = 100 /\ PageSizes[2] = 100 /\ PageSizes[3] = ShortLen
    /\ Len(FindReqs) = 3
    /\ Len(loc.all_ids) = 200 + ShortLen

\* C4: the i-th Find request carries paginationOffset = 100 * (i - 1),
\* whatever number of identifiers was kept from the pages before.
C4_OffsetByPageSize ==
    mode = "products" =>
        \A k \in 1..Len(FindReqs) : FindReqs[k].json.paginationOffset = 100 * (k - 1)

\* a third request at offset 200 after pages that kept fewer than 200
C4_ThirdOffsetAfterFalsy ==
    /\ mode = "products"
    /\ Len(FindReqs) = 3
    /\ FindReqs[3].json.paginationOffset = 200
    /\ Len(pages) = 2
    /\ Len(loc.all_ids) < 200

----------------------------------------------------------------------------
(* Properties of the Batched Detail Fetcher and of the products pass *)

RECURSIVE Concat(_)
\* the sequences of q one after the other
Concat(q) == IF q = <<>> THEN <<>> ELSE Head(q) \o Concat(Tail(q))

Min(a, b) == IF a < b THEN a ELSE b
CeilDiv(n, d) == (n + d - 1) \div d

\* the GetMultiple requests the pass issued through the gateway, in order
GetMultipleReqs == SelectSeq(reqs, IsGetMultiple)
PrimaryKeys == [k \in 1..Len(GetMultipleReqs) |-> GetMultipleReqs[k].json.primaryKeys]

\* the k-th chunk of 100 of the identifiers
Chunk(ids, k) == SubSeq(ids, 100 * (k - 1) + 1, Min(100 * k, Len(ids)))

\* the records a response to a GetMultiple request stands for
ItemsOf(r) ==
    IF r.status = 200 /\ r.body.dict /\ "items" \in DOMAIN r.body.data
    THEN r.body.data["items"] ELSE <<>>

\* C14: for n identifiers the GetMultiple requests are, in order, the chunks
\* of 100 of the identifier sequence: at any time the requests issued are the
\* first chunks, each but the last of exactly 100 primaryKeys, the last of
\* the remainder; a pass that runs to its end has issued exactly
\* ceil(n/100) of them and their payloads, one after the other, are the
\* identifier sequence.  (A request is one call of the gateway.)
C14_ChunksOfHundred ==
    (mode = "products" /\ "all_ids" \in DOMAIN loc) =>
        LET ids == loc.all_ids
            n == Len(ids)
            last == CeilDiv(n, 100)
        IN  /\ Len(GetMultipleReqs) <= last
            /\ \A k \in 1..Len(GetMultipleReqs) :
                  /\ PrimaryKeys[k] = Chunk(ids, k)
                  /\ k < last => Len(PrimaryKeys[k]) = 100
                  /\ k = last => Len(PrimaryKeys[k]) = n - 100 * (last - 1)
            /\ pc = "done" =>
                  /\ Len(GetMultipleReqs) = last
                  /\ Concat(PrimaryKeys) = ids

\* C14 witness: 200 + ShortLen identifiers were requested in three chunks of
\* 100, 100 and ShortLen primaryKeys
C14_ThreeChunks ==
    /\ mode = "products" /\ pc = "done"
    /\ Len(loc.all_ids) = 200 + ShortLen
    /\ Len(GetMultipleReqs) = 3
    /\ Len(PrimaryKeys[1]) = 100 /\ Len(PrimaryKeys[2]) = 100
    /\ Len(PrimaryKeys[3]) = ShortLen

\* C15: a chunk answered with a status other than 200 yields no record and
\* does not end the loop: the records yielded are, in order, the items of
\* the chunks answered 200, and after a chunk that was not answered 200 the
\* next chunk, if there is one, is requested.
C15_FailedChunkSkipped ==
    mode = "products" =>
        /\ out = Concat([k \in 1..Len(details) |-> ItemsOf(details[k])])
        /\ \A k \in 1..Len(details) :
              (details[k].status # 200 /\ 100 * k < Len(loc.all_ids))
                  => (Len(GetMultipleReqs) > k \/ pc = "ps_batch")

\* C15 witness: the first chunk was answered 500, the second 200 with its
\* items, and the pass ended with the records of the second chunk alone
C15_SecondChunkAfterError ==
    /\ mode = "products" /\ pc = "done"
    /\ Len(details) = 2
    /\ details[1].status = 500
    /\ details[2].status = 200
    /\ out = ItemsOf(details[2])
    /\ Len(out) = ShortLen

\* C17 as stated: when the first Find page has fewer than 100 results, a
\* pass that runs to its end has issued one Find request and one GetMultiple
\* request, whose primaryKeys are the identifiers found, and has yielded the
\* items of the response.
C17_AsStated ==
    (mode = "products" /\ pc = "done" /\ Len(pages) >= 1 /\ Len(pages[1]) < 100) =>
        /\ Len(FindReqs) = 1
        /\ Len(GetMultipleReqs) = 1
        /\ PrimaryKeys[1] = KeptIds(pages[1])
        /\ Len(details) = 1 /\ out = ItemsOf(details[1])

\* C17: when the first Find page has fewer than 100 results and at least one
\* of them is an identifier (a truthy value), a pass that runs to its end has
\* issued one Find request and one GetMultiple request, whose primaryKeys
\* are the truthy results as strings in their order, and has yielded the
\* items of the response unchanged and in order (none when the answer is not
\* 200); when none of the results is an identifier no GetMultiple request
\* was issued and no record yielded.
C17_OneFindOneGetMultiple ==
    (mode = "products" /\ pc = "done" /\ Len(pages) >= 1 /\ Len(pages[1]) < 100) =>
        /\ Len(FindReqs) = 1
        /\ IF \E k \in 1..Len(pages[1]) : JsonTruthy(pages[1][k])
           THEN /\ Len(GetMultipleReqs) = 1
                /\ PrimaryKeys[1] = [k \in 1..Len(loc.all_ids) |-> loc.all_ids[k]]
                /\ loc.all_ids = KeptIds(pages[1])
                /\ Len(details) = 1
                /\ details[1].status = 200 =>
                      out = IF "items" \in DOMAIN details[1].body.data
                            THEN details[1].body.data["items"] ELSE <<>>
                /\ details[1].status # 200 => out = <<>>
           ELSE GetMultipleReqs = <<>> /\ out = <<>>

\* C17 witness: Find returned "1", "2", "3"; one GetMultiple request carried
\* them and its three items were yielded
C17_OneTwoThree ==
    /\ mode = "products" /\ pc = "done"
    /\ pages = <<<<<<"str", "1">>, <<"str", "2">>, <<"str", "3">>>>>>
    /\ Len(FindReqs) = 1 /\ Len(GetMultipleReqs) = 1
    /\ PrimaryKeys[1] = <<"1", "2", "3">>
    /\ out = <<[productId |-> "1"], [productId |-> "2"], [productId |-> "3"]>>

\* the Find request issued last was answered with a body that is no JSON,
\* and the answer has reached the loop
FindUnparsed ==
    /\ Len(reqs) >= 1 /\ IsFind(reqs[Len(reqs)])
    /\ ~InRequest
    /\ exc \notin {Some("TokenRefreshError"), Some("EmptyResponseError")}
    /\ response # NoResponse
    /\ ~response.body.json

\* the values of one page that are not falsy (null, 0, ""), as text, in order
\* (the values lo..hi of the page, halved at each level)
RECURSIVE TextsOf(_, _, _)
TextsOf(vals, lo, hi) ==
    IF lo > hi THEN <<>>
    ELSE IF lo = hi
    THEN LET v == vals[lo]
         IN  CASE v[1] = "null" -> <<>>
               [] v[1] = "int" -> IF v[2] = 0 THEN <<>> ELSE <<ToString(v[2])>>
               [] v[1] = "str" -> IF v[2] = "" THEN <<>> ELSE <<v[2]>>
    ELSE LET mid == (lo + hi) \div 2
         IN  TextsOf(vals, lo, mid) \o TextsOf(vals, mid + 1, hi)
IdTexts(vals) == TextsOf(vals, 1, Len(vals))

\* the identifiers gathered so far (none before the finder has begun)
AllIds(l) == IF "all_ids" \in DOMAIN l THEN l.all_ids ELSE <<>>

\* a step of a pass reads at most one page and appends its kept values
IdsStep ==
    mode \in {"products", "orders"} =>
        /\ \/ pages' = pages
           \/ /\ Len(pages') = Len(pages) + 1
              /\ SubSeq(pages', 1, Len(pages)) = pages
        /\ AllIds(loc') = AllIds(loc) \o (IF pages' = pages THEN <<>>
                                         ELSE IdTexts(pages'[Len(pages')]))

\* C27: the identifier sequence the finder ends with is the concatenation, in
\* page order, of the values of each page's results that are not falsy, each
\* as text; a step changes the sequence only by appending those of the page
\* it has just read, so nothing else is added or removed, then or later.
C27_IdsArePagesFiltered ==
    /\ [](pc \in {"ps_ids", "os_ids"} =>
             loc.all_ids = Concat([k \in 1..Len(pages) |-> IdTexts(pages[k])]))
    /\ [][IdsStep]_vars

\* C27 witness: a full page with three falsy values, then a short page with
\* three more: 97 and 1 identifiers
C27_FalsyDroppedOverTwoPages ==
    /\ mode \in {"products", "orders"} /\ pc = "done"
    /\ Len(pages) = 2
    /\ pages[1] = FullPageWithFalsy
    /\ pages[2] = <<<<"int", 0>>, <<"int", 7>>, <<"null">>, <<"str", "">>>>
    /\ Len(loc.all_ids) = 98
    /\ loc.all_ids[1] = "4" /\ loc.all_ids[98] = "7"

\* C19: a Find response whose body is no JSON raises the parse error out of
\* the pass: the pass does not go on, no GetMultiple request is issued and no
\* record is yielded.
C19_FindParseErrorFatal ==
    (mode = "products" /\ FindUnparsed) =>
        /\ pc \in {"ps_page", "raised"}
        /\ pc = "raised" => exc = Some("JSONDecodeError")
        /\ GetMultipleReqs = <<>>
        /\ details = <<>>
        /\ out = <<>>

\* C19 witness: the first page gave 100 identifiers, the second Find
\* response could not be parsed, and the pass ended without a detail request
C19_SecondPageUnparsed ==
    /\ mode = "products" /\ pc = "raised"
    /\ exc = Some("JSONDecodeError")
    /\ FindUnparsed
    /\ Len(FindReqs) = 2
    /\ Len(loc.all_ids) = 100
    /\ GetMultipleReqs = <<>>

----------------------------------------------------------------------------
(* Properties of the Individual Detail Fetcher *)

\* the GetWithDetails requests the pass issued through the gateway, in order
DetailReqs == SelectSeq(reqs, IsGetWithDetails)

\* what the response to a GetWithDetails request makes the pass yield
YieldOf(r) ==
    IF r.status = 200 /\ r.body.json /\ r.body.data # EmptyDict THEN <<r.body.data>> ELSE <<>>

----------------------------------------------------------------------------
(* Properties of the suppliers pass *)

\* the GetMultiple requests of the suppliers pass and their payloads, in order
SupplierBatchReqs == SelectSeq(reqs, IsSuppliersGetMultiple)
SupplierKeys == [k \in 1..Len(SupplierBatchReqs) |-> SupplierBatchReqs[k].json.primaryKeys]

\* C29: the suppliers pass asks for the identifiers once: its first request
\* is a GET to GetAllIds without payload, and every later request is a POST
\* to GetMultiple, whatever the number of identifiers; these carry, in
\* order, the chunks of 100 of the identifiers, ceil(n/100) of them in a pass
\* that runs to its end.  (A request is one call of the gateway.)
C29_OneGetAllIdsThenChunks ==
    (mode = "suppliers" /\ pc # "ss") =>
        /\ Len(reqs) >= 1
        /\ IsGetAllIds(reqs[1]) /\ reqs[1].method = "GET" /\ reqs[1].json = ""
        /\ \A k \in 2..Len(reqs) :
              /\ IsSuppliersGetMultiple(reqs[k]) /\ reqs[k].method = "POST"
              /\ reqs[k].json.primaryKeys = Chunk(loc.supplier_ids, k - 1)
              /\ Len(reqs[k].json.primaryKeys) \in 1..100
        /\ Len(reqs) <= 1 + CeilDiv(Len(loc.supplier_ids), 100)
        /\ pc = "done" =>
              /\ Len(reqs) = 1 + CeilDiv(Len(loc.supplier_ids), 100)
              /\ Concat(SupplierKeys) = loc.supplier_ids

\* C29 witness: one GetAllIds request returned 200 + ShortLen identifiers,
\* which were requested in three chunks
C29_ManyIdsOneGet ==
    /\ mode = "suppliers" /\ pc = "done"
    /\ Len(loc.supplier_ids) = 200 + ShortLen
    /\ Len(SelectSeq(reqs, IsGetAllIds)) = 1
    /\ Len(SupplierBatchReqs) = 3
    /\ Len(SupplierKeys[1]) = 100 /\ Len(SupplierKeys[2]) = 100
    /\ Len(SupplierKeys[3]) = ShortLen

----------------------------------------------------------------------------
(* Properties of the Find loop on refused and on falsy pages *)

\* a Find response with a status outside 2xx whose body is a JSON object
\* without results is being read by the loop
FindRefused ==
    /\ pc \in {"ps_page", "os_page"}
    /\ response.status \notin 200..299
    /\ response.body.json /\ response.body.dict
    /\ "results" \notin DOMAIN response.body.data

\* the loop takes it for an empty page and ends without an exception, with
\* the identifiers it has
RefusedIsEmptyPage ==
    FindRefused =>
        /\ pages' = Append(pages, <<>>)
        /\ pc' \in {"ps_ids", "os_ids"}
        /\ exc' = None
        /\ loc'.all_ids = loc.all_ids

\* C32: in the Find loop a response with a status outside 2xx (a 401 that
\* came back after the refresh included) and a JSON object without results
\* is an empty page: the loop ends without raising and keeps the identifiers
\* of the earlier pages, which the detail phase then requests: a pass that
\* runs to its end has requested every one of them.
C32_RefusedFindIsEmptyPage ==
    /\ [](mode = "products" /\ pc = "done" /\ "all_ids" \in DOMAIN loc =>
             /\ exc = None
             /\ Concat(PrimaryKeys) = loc.all_ids)
    /\ [](mode = "orders" /\ pc = "done" /\ "all_ids" \in DOMAIN loc =>
             /\ exc = None
             /\ Len(DetailReqs) = Len(loc.all_ids))
    /\ [][RefusedIsEmptyPage]_vars

\* C32 witness: the second Find request was answered 401 twice, the second
\* time after a refresh; the loop ended with the 100 identifiers of the
\* first page
C32_SecondPageRefused401 ==
    /\ mode = "products" /\ pc = "ps_ids"
    /\ response.status = 401
    /\ Len(got) = 2 /\ got[1].status = 401 /\ got[2].status = 401
    /\ Len(pages) = 2 /\ pages[1] = FullPage /\ pages[2] = <<>>
    /\ Len(loc.all_ids) = 100
    /\ exc = None

\* the loop is reading a page that was parsed: its raw results
PageRead ==
    /\ pc \in {"ps_page", "os_page"}
    /\ pages' # pages

\* the loop goes on to the next offset exactly when the page has page_size
\* raw results or more, whatever the number of identifiers kept
RawCountDecides ==
    PageRead =>
        LET ids == pages'[Len(pages')] IN
        /\ pc' \in {"ps_find", "os_find"} <=> Len(ids) >= page_size
        /\ pc' \in {"ps_find", "os_find"} => loc'.offset = loc.offset + page_size
        /\ pc' \notin {"ps_find", "os_find"} => pc' \in {"ps_ids", "os_ids"}
        /\ ids # <<>> => loc'.all_ids = loc.all_ids \o IdTexts(ids)

\* C33: the short-page test of the Find loop counts the raw results of the
\* page, not the identifiers kept: a page of 100 results goes on to the next
\* offset even when falsy values leave fewer than 100 identifiers, or none;
\* a page with results that are all falsy adds no identifier and is judged
\* by its length like any other page.
C33_RawCountDecides == [][RawCountDecides]_vars

\* C33 witness: a first page of 100 falsy results kept no identifier and a
\* second page of 100 results kept 97; the loop has issued the Find request
\* at offset 200
C33_ContinuesAfterFalsyPages ==
    /\ mode = "products"
    /\ Len(pages) = 2
    /\ pages[1] = FullPageAllFalsy /\ pages[2] = FullPageWithFalsy
    /\ Len(loc.all_ids) = 97
    /\ Len(FindReqs) = 3
    /\ FindReqs[3].json.paginationOffset = 2 * page_size

----------------------------------------------------------------------------
(* Properties of the purchase-orders pass *)

\* start_date and end_date are both configured (a string that is not empty)
DatesConfigured ==
    /\ "start_date" \in DOMAIN config /\ config["start_date"] \notin {None, Some("")}
    /\ "end_date" \in DOMAIN config /\ config["end_date"] \notin {None, Some("")}

\* C36: the purchase-orders pass issues no request and yields no record
\* unless start_date and end_date are both configured; the lower bound of
\* every Find request it issues is the configured start_date as it is
\* written, whatever value an earlier run has saved.
C36_DatesRequiredStartDateUsed ==
    mode = "purchase_orders" =>
        /\ ~DatesConfigured => (reqs = <<>> /\ sent = <<>> /\ out = <<>> /\ pc \in {"po", "done"})
        /\ \A k \in 1..Len(reqs) :
              reqs[k].method = "POST" =>
                  /\ Len(reqs[k].json.fieldFilters) = 1
                  /\ Some(reqs[k].json.fieldFilters[1].value) = config["start_date"]

\* C36 witness: both dates are configured and an earlier run saved another
\* value; the Find request carried the configured start_date and an order
\* was yielded
C36_ConfiguredDespiteSaved ==
    /\ mode = "purchase_orders" /\ pc = "done"
    /\ DatesConfigured
    /\ bookmark # None /\ bookmark # config["start_date"]
    /\ context # None
    /\ Len(reqs) >= 2
    /\ reqs[1].json.fieldFilters[1].value = config["start_date"][1]
    /\ Len(out) >= 1

----------------------------------------------------------------------------
(* Properties of the order of the requests of a pass *)

\* a Find request of either stream, and a detail request of either stream
IsAnyFind(c) == IsFind(c) \/ IsOrdersFind(c)
IsDetail(c) == IsGetMultiple(c) \/ IsGetWithDetails(c)

\* the Find loop has ended: every Find request was answered by a page, and
\* the last page was empty or short
FindEnded ==
    /\ Len(pages) >= 1
    /\ Len(pages) = Len(SelectSeq(reqs, IsAnyFind))
    /\ Len(pages[Len(pages)]) < page_size

\* the requests of a pass are Find requests at offsets 0, 100, 200, ...
\* followed by detail requests only, the first of them after the Find loop
\* has ended
TwoPhases ==
    \A k \in 1..Len(reqs) :
        /\ IsAnyFind(reqs[k]) \/ IsDetail(reqs[k])
        /\ IsAnyFind(reqs[k]) =>
              /\ \A j \in 1..(k - 1) : IsAnyFind(reqs[j])
              /\ reqs[k].json.paginationOffset = (k - 1) * page_size
        /\ IsDetail(reqs[k]) => FindEnded

\* a request is begun when no other is in progress, one at a time
OneAtATime ==
    (mode \in {"products", "orders"} /\ reqs' # reqs) =>
        /\ ~InRequest /\ InRequest'
        /\ Len(reqs') = Len(reqs) + 1
        /\ SubSeq(reqs', 1, Len(reqs)) = reqs

\* C28: within a pass the requests are sequential and in two phases: a
\* request is issued only when none is in progress, the Find pages are asked
\* in increasing offset order, and no detail request (GetMultiple or
\* GetWithDetails) is issued before the Find loop has ended.
C28_SequentialTwoPhases ==
    /\ [](mode \in {"products", "orders"} => TwoPhases)
    /\ [][OneAtATime]_vars

\* C28 witness: three Find requests at offsets 0, 100 and 200, then three
\* GetMultiple requests, and the pass ran to its end
C28_ThreeFindsThenThreeBatches ==
    /\ mode = "products" /\ pc = "done"
    /\ Len(reqs) = 6
    /\ \A k \in 1..3 : IsFind(reqs[k]) /\ reqs[k].json.paginationOffset = (k - 1) * page_size
    /\ \A k \in 4..6 : IsGetMultiple(reqs[k])

----------------------------------------------------------------------------
(* Properties of the propagation of failures *)

\* update_access_token gave up and its exception left the pass
AuthFailed == pc = "raised" /\ exc \in {Some("TokenRefreshError"), Some("EmptyResponseError")}

\* the pass took the response to a detail request that was not answered 200
FetchFailed ==
    /\ Len(details') = Len(details) + 1
    /\ details'[Len(details')].status # 200

\* C18: when update_access_token has failed max_tries times during a request
\* of a pass (a Find page, a chunk, an identifier), its exception ends the
\* pass and nothing happens after it: no request, no record; when a chunk or
\* an identifier is answered with a status other than 200, the pass drops it
\* alone: the records yielded so far stay, no exception is raised, and the
\* loop goes on to the next chunk or identifier.
C18_AuthAbortsFetchIsolated ==
    [][/\ ~AuthFailed
       /\ tries' = max_tries <=> AuthFailed'
       /\ AuthFailed' => reqs' = reqs /\ out' = out /\ sent' = sent
       /\ FetchFailed =>
             /\ out' = out
             /\ exc' = None
             /\ pc' \in {"ps_batch", "os_item"}
             /\ loc'.all_ids = loc.all_ids
             /\ loc'.i > loc.i]_vars

\* C18 witness: of three orders the first was answered 500 and dropped, the
\* second was yielded, and the refresh after a 401 for the third gave up
C18_AbortAfterPartialProgress ==
    /\ mode = "orders"
    /\ AuthFailed /\ tries = 5
    /\ Len(DetailReqs) = 3 /\ Len(details) = 2
    /\ details[1].status = 500
    /\ Len(out) = 1
    /\ got[1].status = 401

----------------------------------------------------------------------------
(* Properties of the unix-cursor streams *)

\* a pass is under way: its lower bound is set, its cursor is not stored yet
PassLabels == {"ah", "ah_build", "uat", "uat_try", "ux_get", "ux_next"}
InPass == mode \in UnixStreams /\ pc \in PassLabels

\* the request of the pass went out and was answered with items
Fetched == mode \in UnixStreams /\ pc = "ux_next"

\* the pass ran to its end and stored its cursor
PassSaved == mode \in UnixStreams /\ pc = "done" /\ response.status = 200

\* the cursor the context object holds
StoredCursor == Get(context[1], "replication_key_value")

\* the request of a pass has just been answered with a status other than 200
Refused ==
    /\ mode \in UnixStreams /\ pc = "ux_get"
    /\ reqs' # reqs
    /\ response'.status # 200

\* such an answer ends the pass at once: no refresh, no second request, no
\* record, and the context object is left as it was
RefusedEndsPass ==
    Refused =>
        /\ pc' = "done"
        /\ Len(reqs') = 1
        /\ out' = <<>>
        /\ context' = context
        /\ config' = config /\ tries' = tries /\ attempt' = attempt

\* C31: a pass of a unix-cursor stream issues at most one request to its
\* timestamp endpoint, exactly one once the headers are there, and never
\* through the gateway; an answer with a status other than 200, 401
\* included, ends the pass without refresh or retry: no record is yielded and
\* the context gives the next pass the lower bound this pass began with.
C31_OneRequestNoRetry ==
    /\ [](mode \in UnixStreams =>
             /\ ~InRequest /\ sent = <<>>
             /\ Len(reqs) <= 1
             /\ pc \in {"ux_next", "done", "closed"} => Len(reqs) = 1
             /\ (pc = "done" /\ response.status # 200) =>
                   /\ out = <<>>
                   /\ StartingUnix(context) = loc.last_synced_unix)
    /\ [][RefusedEndsPass]_vars

\* C31 witness: the second pass over a context object was answered 401; it
\* ended after its one request, without a record, and the cursor is the one
\* the first pass stored
C31_SecondPassRefused ==
    /\ mode \in UnixStreams /\ pc = "done"
    /\ hist.n = 2
    /\ response.status = 401
    /\ Len(reqs) = 1 /\ out = <<>>
    /\ context # None
    /\ StoredCursor # None /\ StoredCursor = hist.persisted

\* C5 as stated: the cursor a pass stores for the next pass is the reading of
\* the clock at the instant the pass began, before its request and before
\* any record was yielded, and not a reading taken when the pass completed.
C5_AsStated ==
    (PassSaved /\ context # None) => StoredCursor = hist.began

\* C6 as stated: over passes that share one context object and are all
\* consumed to their end, the cursor a pass stored is the lower bound the
\* next pass requests, and every item modified at or after the lower bound
\* of the first pass and before the request of a pass was sent by some pass.
C6_AsStated ==
    (mode \in UnixStreams /\ context # None /\ hist.complete) =>
        /\ (InPass /\ hist.n >= 2) => hist.persisted = Some(loc.last_synced_unix)
        /\ PassSaved =>
              \A m \in mods :
                  (unix_le(hist.first_lower[1], m) /\ unix_lt(m, hist.fetched[1]))
                      => m \in hist.delivered

\* C26: the context object changes in one step only, the one that follows
\* the yield of the last record of a pass: it does not change while records
\* are yielded nor when the consumer closes the generator before its end, so
\* the cursor it holds keeps the value it had when the pass began.
C26_CursorStoredAfterLastRecord ==
    [][/\ context' # context =>
             /\ pc = "ux_next" /\ pc' = "done"
             /\ Len(out) = Len(loc.items)
             /\ loc.k > Len(loc.items)
       /\ (mode \in UnixStreams /\ pc' \in {"ux_next", "closed"}) => context' = context]_vars

\* C26 witness: the second pass over a context object was abandoned after
\* the first of several records; the cursor is the one the first pass stored
C26_AbandonedKeepsCursor ==
    /\ mode \in UnixStreams /\ pc = "closed"
    /\ hist.n = 2
    /\ context # None
    /\ Len(out) >= 1 /\ Len(out) < Len(loc.items)
    /\ StoredCursor = hist.persisted
    /\ StoredCursor = Some(loc.last_synced_unix)

\* C7: in a pass every record yielded carries under unix_timestamp one and the
\* same value, the lower bound the URL of the pass's request was built from,
\* whatever unix_timestamp the item came with.
C7_RecordsCarryStartCursor ==
    mode \in UnixStreams =>
        \A i \in 1..Len(out) :
            /\ "unix_timestamp" \in DOMAIN out[i]
            /\ out[i]["unix_timestamp"] = Some(loc.last_synced_unix)
            /\ out[i]["unix_timestamp"] = out[1]["unix_timestamp"]
            /\ reqs[Len(reqs)].url = get_url(mode, out[i]["unix_timestamp"][1])

\* C7 witness: two records are out, and the item of one of them came with a
\* unix_timestamp of its own that is not the lower bound of the pass
C7_OwnStampReplaced ==
    /\ mode \in UnixStreams
    /\ Len(out) >= 2
    /\ \E i \in 1..Len(out) :
          /\ "unix_timestamp" \in DOMAIN loc.items[i]
          /\ loc.items[i]["unix_timestamp"] # Some(loc.last_synced_unix)
          /\ out[i]["unix_timestamp"] = Some(loc.last_synced_unix)

\* C8: the lower bound of the request is 1640995200000 when the context is
\* absent or holds no replication_key_value (none, or a null one), and is the
\* value X when the context holds replication_key_value X.
C8_LowerBound ==
    Fetched =>
        LET saved == IF context = None THEN None ELSE StoredCursor IN
        IF saved = None
        THEN /\ loc.last_synced_unix = UnixMs(1640995200, 0)
             /\ reqs[Len(reqs)].url = FromDatePath(mode) \o "1640995200000"
        ELSE /\ loc.last_synced_unix = saved[1]
             /\ reqs[Len(reqs)].url = FromDatePath(mode) \o format_unix(saved[1])

\* C8 witness: the context holds the value 0, and the request asked for the
\* items from 0 on
C8_ZeroIsKept ==
    /\ Fetched
    /\ context = Some("replication_key_value" :> Some(UnixMs(0, 0)))
    /\ reqs[Len(reqs)].url = FromDatePath(mode) \o "0"

----------------------------------------------------------------------------
(* Properties of the functions *)

\* a value is present: neither None nor empty
Present(o) == o # None /\ o[1] # ""

\* C9: get_starting_time returns the saved replication-key value if present,
\* else the configured start_date if present, else 1970-01-01; a present
\* saved value wins over start_date (a value that is no ISO date raises, it
\* does not fall through to the next source).
C9_StartingTimePriority ==
    mode = "start" /\ pc # "idle" =>
        LET sd == Get(config, "start_date")
            source == IF Present(bookmark) THEN bookmark
                      ELSE IF Present(sd) THEN sd
                      ELSE Some("1970-01-01")
        IN  /\ source = Some("1970-01-01") => pc = "done" /\ probe = Some(Epoch)
            /\ source # Some("1970-01-01") /\ pc = "done" => probe = fromisoformat(source[1])
            /\ pc = "raised" => source # Some("1970-01-01") /\ fromisoformat(source[1]) = None

\* a saved value and a different start_date: the saved value is returned
C9_SavedValueWins ==
    /\ mode = "start" /\ pc = "done"
    /\ Present(bookmark) /\ Present(Get(config, "start_date"))
    /\ fromisoformat(Get(config, "start_date")[1]) # None
    /\ probe = fromisoformat(bookmark[1])
    /\ probe # fromisoformat(Get(config, "start_date")[1])

====
